---- MODULE Spec2Model ----
(***************************************************************************)
(* Climate Risk API V4: the Flask handlers of app.py and the estimation    *)
(* engine ClimateRiskProcessorV4 of climate_risk_processor_v4_cloud.py.    *)
(*                                                                         *)
(* Fixed-point conventions (the source computes in binary floating point;  *)
(* the model computes the same expressions on scaled integers, rounding    *)
(* down at each division):                                                 *)
(*   coordinates            hundredths of a degree  (25.76 deg -> 2576)     *)
(*   gridded index values   tenths of the unit      (38.0 C    -> 380)      *)
(*   wind speed in mph      hundredths              (74 mph    -> 7400)     *)
(*   damage ratios          millionths (ppm)        (0.05      -> 50000)    *)
(*   flood depth            centimetres             (0.3 m     -> 30)       *)
(*   money                  whole currency units                           *)
(*   annual_loss_pct        thousandths of a percent                       *)
(* Grid and row indices are 1-based here and 0-based in the source.        *)
(***************************************************************************)
EXTENDS Integers, Sequences, FiniteSets, TLC

VARIABLES
    disk,               \* the files under climate_data/ (environment)
    processor,          \* app.py: the global `processor` (None or an engine)
    engines,            \* the ClimateRiskProcessorV4 objects, by constructing thread
    pc,                 \* each request thread's position in its handler
    req,                \* each thread's request (endpoint and JSON body)
    proc,               \* each handler's local `proc`
    storm_max_damage,   \* calculate_hurricane_risk: the per-call defaultdict(float)
    row,                \* calculate_hurricane_risk: rows of the archive consumed
    ts,                 \* heat/drought/precip: the series extract_hadex3_timeseries returned
    est,                \* calculate_comprehensive_risk: hurricane, flood, heat, drought, precip
    response,           \* what the handler returned
    call,               \* a direct call of an engine function: its name and arguments
    result              \* what that call returned

vars == <<disk, processor, engines, pc, req, proc, storm_max_damage, row, ts, est, response,
          call, result>>

----------------------------------------------------------------------------
(* Bounds of the model *)

\* number of concurrent request threads
NumThreads == 2

\* longest hurricane track drawn for the track specification
MaxObs == 3

\* storms in a drawn hurricane season
MaxStorms == 6

Threads == 1..NumThreads

None == "None"

\* app.py: processor = None (engines are named by the thread that constructs them)
NoEngine == 0

\* np.nan / a masked entry of a series, and a NaN field of a track row
NaN == -99999

IsNaN(x) == x = NaN

----------------------------------------------------------------------------
(* Small helpers *)

Abs(x) == IF x < 0 THEN -x ELSE x

Max2(a, b) == IF a >= b THEN a ELSE b

Min2(a, b) == IF a <= b THEN a ELSE b

RECURSIVE SumSeq(_)
SumSeq(s) == IF s = <<>> THEN 0 ELSE Head(s) + SumSeq(Tail(s))

\* floor of the square root of a natural number (bisection on lo..hi)
RECURSIVE ISqrtIn(_, _, _)
ISqrtIn(x, lo, hi) ==
    IF lo >= hi THEN lo
    ELSE LET mid == (lo + hi + 1) \div 2
         IN  IF mid * mid <= x THEN ISqrtIn(x, mid, hi) ELSE ISqrtIn(x, lo, mid - 1)

ISqrt(x) == ISqrtIn(x, 0, 40000)

\* dict.get(key, default)
Get(d, key, default) == IF key \in DOMAIN d THEN d[key] ELSE default

\* ratio (ppm) of an asset value, in whole currency units
Money(ppm, asset_value) == (ppm * (asset_value \div 1000)) \div 1000

\* (loss / asset_value) * 100, in thousandths of a percent
Pct(loss, asset_value) == (loss * 100) \div (asset_value \div 1000)

----------------------------------------------------------------------------
(* _init_regional_baselines / get_regional_baseline *)

\* The dict of _init_regional_baselines in its insertion order (the order
\* get_regional_baseline iterates it); ranges in hundredths of a degree,
\* values in tenths.
regional_baselines ==
    << [name |-> "north_america_midwest",   lat_range |-> <<3500, 5000>>,   lon_range |-> <<-10500, -8500>>,
        cdd |-> 1100, txx |-> 380, rx5day |-> 900],
       [name |-> "north_america_southwest", lat_range |-> <<2500, 4000>>,   lon_range |-> <<-12500, -10500>>,
        cdd |-> 1800, txx |-> 420, rx5day |-> 400],
       [name |-> "north_america_southeast", lat_range |-> <<2500, 4000>>,   lon_range |-> <<-9500, -7500>>,
        cdd |-> 900,  txx |-> 360, rx5day |-> 1500],
       [name |-> "north_america_northeast", lat_range |-> <<4000, 5000>>,   lon_range |-> <<-8500, -6500>>,
        cdd |-> 600,  txx |-> 320, rx5day |-> 1000],
       [name |-> "europe_central",          lat_range |-> <<4500, 5500>>,   lon_range |-> <<-500, 2500>>,
        cdd |-> 500,  txx |-> 300, rx5day |-> 800],
       [name |-> "europe_mediterranean",    lat_range |-> <<3500, 4500>>,   lon_range |-> <<-1000, 3000>>,
        cdd |-> 1200, txx |-> 380, rx5day |-> 700],
       [name |-> "asia_south",              lat_range |-> <<500, 3000>>,    lon_range |-> <<6500, 10000>>,
        cdd |-> 1000, txx |-> 420, rx5day |-> 2000],
       [name |-> "asia_east",               lat_range |-> <<2500, 4500>>,   lon_range |-> <<10000, 14500>>,
        cdd |-> 800,  txx |-> 360, rx5day |-> 1500],
       [name |-> "africa_sahel",            lat_range |-> <<1000, 2000>>,   lon_range |-> <<-2000, 4000>>,
        cdd |-> 2000, txx |-> 440, rx5day |-> 800],
       [name |-> "africa_equatorial",       lat_range |-> <<-1000, 1000>>,  lon_range |-> <<-2000, 5000>>,
        cdd |-> 600,  txx |-> 340, rx5day |-> 1800],
       [name |-> "south_america_amazon",    lat_range |-> <<-1500, 500>>,   lon_range |-> <<-8000, -4500>>,
        cdd |-> 500,  txx |-> 350, rx5day |-> 2000],
       [name |-> "south_america_temperate", lat_range |-> <<-4000, -2000>>, lon_range |-> <<-7500, -4500>>,
        cdd |-> 800,  txx |-> 320, rx5day |-> 1000],
       [name |-> "australia_interior",      lat_range |-> <<-3500, -1500>>, lon_range |-> <<11500, 14500>>,
        cdd |-> 2200, txx |-> 450, rx5day |-> 500],
       [name |-> "australia_coastal",       lat_range |-> <<-4000, -2500>>, lon_range |-> <<14000, 15500>>,
        cdd |-> 1000, txx |-> 380, rx5day |-> 1200] >>

\* index_map of get_regional_baseline: the proxy key of each index name
index_map ==
    [cdd |-> "cdd", txx |-> "txx", rx5day |-> "rx5day",
     tr |-> "txx", su |-> "txx", wsdi |-> "txx", rx1day |-> "rx5day"]

\* global defaults of get_regional_baseline
defaults == [cdd |-> 800, txx |-> 350, rx5day |-> 1000]

InRegion(r, lat, lon) ==
    /\ r.lat_range[1] <= lat /\ lat <= r.lat_range[2]
    /\ r.lon_range[1] <= lon /\ lon <= r.lon_range[2]

\* the region loop without its return: the last matching region wins
get_regional_baseline_last_match(lat, lon, index_name) ==
    IF index_name \notin DOMAIN index_map THEN [kind |-> "None"]
    ELSE LET baseline_key == index_map[index_name]
             hits == {k \in 1..Len(regional_baselines) : InRegion(regional_baselines[k], lat, lon)}
         IN  IF hits # {}
             THEN LET last == CHOOSE k \in hits : \A j \in hits : k >= j
                  IN  [kind |-> "value", v |-> regional_baselines[last][baseline_key]]
             ELSE [kind |-> "value", v |-> defaults[baseline_key]]

\* returns [kind |-> "None"] or [kind |-> "value", v]
get_regional_baseline(lat, lon, index_name) ==
    IF index_name \notin DOMAIN index_map THEN [kind |-> "None"]
    ELSE LET baseline_key == index_map[index_name]
             hits == {k \in 1..Len(regional_baselines) : InRegion(regional_baselines[k], lat, lon)}
         IN  IF hits # {}
             THEN LET first == CHOOSE k \in hits : \A j \in hits : k <= j
                  IN  [kind |-> "value", v |-> regional_baselines[first][baseline_key]]
             ELSE [kind |-> "value", v |-> defaults[baseline_key]]

----------------------------------------------------------------------------
(* DamageFunctionLibrary: wind_to_damage_hazus, flood_depth_to_damage_hazus *)

\* wind in hundredths of a mph, result in ppm
wind_to_damage_wood_frame(wind_mph) ==
    IF wind_mph < 7400 THEN 0
    ELSE IF wind_mph < 9500  THEN 50000  + (wind_mph - 7400)  * 48
    ELSE IF wind_mph < 11000 THEN 150000 + (wind_mph - 9500)  * 100
    ELSE IF wind_mph < 13000 THEN 300000 + (wind_mph - 11000) * 100
    ELSE IF wind_mph < 15700 THEN 500000 + (wind_mph - 13000) * 111
    ELSE Min2(800000 + (wind_mph - 15700) * 50, 1000000)

\* the concrete curve without the min(..., 0.70) of its last segment
wind_to_damage_concrete_uncapped(wind_mph) ==
    IF wind_mph < 7400 THEN 0
    ELSE IF wind_mph < 9500  THEN 20000  + (wind_mph - 7400)  * 14
    ELSE IF wind_mph < 11000 THEN 50000  + (wind_mph - 9500)  * 33
    ELSE IF wind_mph < 13000 THEN 100000 + (wind_mph - 11000) * 50
    ELSE IF wind_mph < 15700 THEN 200000 + (wind_mph - 13000) * 74
    ELSE 400000 + (wind_mph - 15700) * 75

wind_to_damage_concrete(wind_mph) ==
    IF wind_mph < 7400 THEN 0
    ELSE IF wind_mph < 9500  THEN 20000  + (wind_mph - 7400)  * 14
    ELSE IF wind_mph < 11000 THEN 50000  + (wind_mph - 9500)  * 33
    ELSE IF wind_mph < 13000 THEN 100000 + (wind_mph - 11000) * 50
    ELSE IF wind_mph < 15700 THEN 200000 + (wind_mph - 13000) * 74
    ELSE Min2(400000 + (wind_mph - 15700) * 75, 700000)

wind_to_damage_hazus(wind_mph, building_type) ==
    IF building_type = "wood_frame" THEN wind_to_damage_wood_frame(wind_mph)
    ELSE IF building_type = "concrete" THEN wind_to_damage_concrete(wind_mph)
    ELSE wind_to_damage_wood_frame(wind_mph)

\* control points (depth in cm, damage in ppm)
curves ==
    [residential |-> << <<0, 0>>, <<30, 100000>>, <<100, 200000>>, <<200, 400000>>,
                        <<300, 600000>>, <<400, 750000>>, <<500, 850000>> >>,
     commercial  |-> << <<0, 0>>, <<30, 150000>>, <<100, 350000>>, <<200, 550000>>,
                        <<300, 700000>>, <<400, 800000>>, <<500, 900000>> >>,
     industrial  |-> << <<0, 0>>, <<30, 80000>>,  <<100, 180000>>, <<200, 350000>>,
                        <<300, 500000>>, <<400, 650000>>, <<500, 750000>> >>]

\* the curve search without the clamp to the last control point
flood_depth_to_damage_unclamped(depth_m, building_type) ==
    LET curve == IF building_type \in DOMAIN curves THEN curves[building_type]
                 ELSE curves["residential"]
        segs  == {i \in 1..(Len(curve) - 1) : curve[i][1] <= depth_m /\ depth_m <= curve[i + 1][1]}
    IN  IF segs # {}
        THEN LET i == CHOOSE k \in segs : \A j \in segs : k <= j
             IN  curve[i][2] + ((depth_m - curve[i][1]) * (curve[i + 1][2] - curve[i][2]))
                                  \div (curve[i + 1][1] - curve[i][1])
        ELSE 0

flood_depth_to_damage_hazus(depth_m, building_type) ==
    LET curve == IF building_type \in DOMAIN curves THEN curves[building_type]
                 ELSE curves["residential"]
        segs  == {i \in 1..(Len(curve) - 1) : curve[i][1] <= depth_m /\ depth_m <= curve[i + 1][1]}
    IN  IF segs # {}
        THEN LET i == CHOOSE k \in segs : \A j \in segs : k <= j
             IN  curve[i][2] + ((depth_m - curve[i][1]) * (curve[i + 1][2] - curve[i][2]))
                                  \div (curve[i + 1][1] - curve[i][1])
        ELSE IF depth_m >= curve[Len(curve)][1] THEN curve[Len(curve)][2]
        ELSE 0

----------------------------------------------------------------------------
(* haversine: great-circle distance in km.  The source evaluates             *)
(*   a = sin^2(dlat/2) + cos(lat1) cos(lat2) sin^2(dlon/2)                   *)
(*   d = 6371 * 2 * atan2(sqrt(a), sqrt(1 - a))                              *)
(* The table holds that expression, rounded to the kilometre, for every      *)
(* (query point, data point) pair the model draws.                           *)

HaversineKm ==
       <<2576, -8019, 2625, -8250>> :> 237 @@ <<2576, -8019, 2625, -8063>> :> 70 @@
       <<2576, -8019, 2625, -7875>> :> 154 @@ <<2576, -8019, 2500, -8250>> :> 247 @@
       <<2576, -8019, 2500, -8063>> :> 95 @@ <<2576, -8019, 2500, -7875>> :> 168 @@
       <<2576, -8019, 2576, -8019>> :> 0 @@ <<2576, -8019, 2666, -8019>> :> 100 @@
       <<2576, -8019, 2711, -8019>> :> 150 @@ <<2576, -8019, 2846, -8019>> :> 300 @@
       <<2666, -8019, 2625, -8250>> :> 234 @@ <<2666, -8019, 2625, -8063>> :> 63 @@
       <<2666, -8019, 2625, -7875>> :> 150 @@ <<2666, -8019, 2500, -8250>> :> 296 @@
       <<2666, -8019, 2500, -8063>> :> 190 @@ <<2666, -8019, 2500, -7875>> :> 234 @@
       <<2666, -8019, 2576, -8019>> :> 100 @@ <<2666, -8019, 2666, -8019>> :> 0 @@
       <<2666, -8019, 2711, -8019>> :> 50 @@ <<2666, -8019, 2846, -8019>> :> 200 @@
       <<6000, 1000, 2625, -8250>> :> 7638 @@ <<6000, 1000, 2625, -8063>> :> 7537 @@
       <<6000, 1000, 2625, -7875>> :> 7436 @@ <<6000, 1000, 2500, -8250>> :> 7755 @@
       <<6000, 1000, 2500, -8063>> :> 7654 @@ <<6000, 1000, 2500, -7875>> :> 7552 @@
       <<6000, 1000, 2576, -8019>> :> 7559 @@ <<6000, 1000, 2666, -8019>> :> 7475 @@
       <<6000, 1000, 2711, -8019>> :> 7433 @@ <<6000, 1000, 2846, -8019>> :> 7307 @@
       <<9500, -8019, 2625, -8250>> :> 7644 @@ <<9500, -8019, 2625, -8063>> :> 7645 @@
       <<9500, -8019, 2625, -7875>> :> 7644 @@ <<9500, -8019, 2500, -8250>> :> 7783 @@
       <<9500, -8019, 2500, -8063>> :> 7784 @@ <<9500, -8019, 2500, -7875>> :> 7783 @@
       <<9500, -8019, 2576, -8019>> :> 7699 @@ <<9500, -8019, 2666, -8019>> :> 7599 @@
       <<9500, -8019, 2711, -8019>> :> 7549 @@ <<9500, -8019, 2846, -8019>> :> 7399 @@
       <<3700, -9000, 2625, -8250>> :> 1389 @@ <<3700, -9000, 2625, -8063>> :> 1487 @@
       <<3700, -9000, 2625, -7875>> :> 1599 @@ <<3700, -9000, 2500, -8250>> :> 1512 @@
       <<3700, -9000, 2500, -8063>> :> 1604 @@ <<3700, -9000, 2500, -7875>> :> 1709 @@
       <<3700, -9000, 2576, -8019>> :> 1557 @@ <<3700, -9000, 2666, -8019>> :> 1475 @@
       <<3700, -9000, 2711, -8019>> :> 1435 @@ <<3700, -9000, 2846, -8019>> :> 1319

haversine(lat1, lon1, lat2, lon2) == HaversineKm[<<lat1, lon1, lat2, lon2>>]

----------------------------------------------------------------------------
(* SpatialResolver: find_nearest_grid_point, interpolate_from_neighbors,    *)
(* extract_hadex3_timeseries.  A dataset is                                 *)
(*   [status, latitude, longitude, var]  with var[<<i, j>>] the series of   *)
(* cell (i, j); status "corrupt" is a file h5netcdf opened whose variables  *)
(* raise on access, "novar" one that holds only coordinate variables.       *)

\* np.abs(xs - x).argmin(): the first index of a minimum
ArgMinAbs(xs, x) ==
    CHOOSE i \in 1..Len(xs) :
        /\ \A j \in 1..Len(xs) : Abs(xs[i] - x) <= Abs(xs[j] - x)
        /\ \A j \in 1..(i - 1) : Abs(xs[j] - x) > Abs(xs[i] - x)

find_nearest_grid_point(dataset, lat, lon) ==
    <<ArgMinAbs(dataset.latitude, lat), ArgMinAbs(dataset.longitude, lon)>>

\* number of entries np.ma.masked_invalid masks (NaN only)
MaskedCount(series) == Cardinality({i \in 1..Len(series) : IsNaN(series[i])})

\* N, S, W, E, NW, NE, SW, SE
offsets == << <<-1, 0>>, <<1, 0>>, <<0, -1>>, <<0, 1>>,
              <<-1, -1>>, <<-1, 1>>, <<1, -1>>, <<1, 1>> >>

\* weight 1.0 / (distance + 1), scaled by 10^6
NeighborWeight(distance) == 1000000 \div (distance + 1)

\* the valid_neighbors list: the in-bounds offsets, in order, whose series is
\* at most half masked
valid_neighbors(dataset, lat, lon, lat_idx, lon_idx) ==
    LET InBounds(k) ==
            /\ 1 <= lat_idx + offsets[k][1] /\ lat_idx + offsets[k][1] <= Len(dataset.latitude)
            /\ 1 <= lon_idx + offsets[k][2] /\ lon_idx + offsets[k][2] <= Len(dataset.longitude)
        Data(k) == dataset.var[<<lat_idx + offsets[k][1], lon_idx + offsets[k][2]>>]
        Valid(k) == InBounds(k) /\ 2 * MaskedCount(Data(k)) <= Len(Data(k))
        Entry(k) == [data   |-> Data(k),
                     weight |-> NeighborWeight(haversine(lat, lon,
                                    dataset.latitude[lat_idx + offsets[k][1]],
                                    dataset.longitude[lon_idx + offsets[k][2]]))]
        Keep == SelectSeq(<<1, 2, 3, 4, 5, 6, 7, 8>>, Valid)
    IN  [n \in 1..Len(Keep) |-> Entry(Keep[n])]

interpolate_from_neighbors(dataset, lat, lon, lat_idx, lon_idx) ==
    LET vn == valid_neighbors(dataset, lat, lon, lat_idx, lon_idx)
    IN  IF Len(vn) < 3 THEN [kind |-> "None"]
        ELSE LET data_length == Len(vn[1].data)
                 Used(i) == {n \in 1..Len(vn) : ~IsNaN(vn[n].data[i]) /\ ~(vn[n].data[i] < -9000)}
                 weighted_sum(i) == SumSeq([n \in 1..Len(vn) |->
                                       IF n \in Used(i) THEN vn[n].data[i] * vn[n].weight ELSE 0])
                 weight_sum(i) == SumSeq([n \in 1..Len(vn) |->
                                       IF n \in Used(i) THEN vn[n].weight ELSE 0])
             IN  [kind |-> "series",
                  data |-> [i \in 1..data_length |->
                               IF weight_sum(i) > 0 THEN weighted_sum(i) \div weight_sum(i)
                               ELSE NaN]]

extract_hadex3_timeseries(hadex3_data, index_name, lat, lon) ==
    IF index_name \notin DOMAIN hadex3_data THEN [kind |-> "None"]
    ELSE LET dataset == hadex3_data[index_name]
         IN  IF dataset.status = "corrupt" THEN [kind |-> "raise"]
             ELSE IF dataset.status = "novar" THEN [kind |-> "None"]
             ELSE LET idx == find_nearest_grid_point(dataset, lat, lon)
                      timeseries == dataset.var[idx]
                      valid_count == Len(timeseries) - MaskedCount(timeseries)
                  IN  IF 2 * valid_count >= Len(timeseries)
                      THEN [kind |-> "series", data |-> timeseries]
                      ELSE interpolate_from_neighbors(dataset, lat, lon, idx[1], idx[2])

----------------------------------------------------------------------------
(* FloodDepthResolver: query_flood_depth.  flood_lookup is the dict of      *)
(* flood_lookup.json in file order: a sequence of [key, depth, depth_type]. *)
(* A key is the text "<lat>,<lon>"; each half is [v, form]: v the float it  *)
(* parses to, form "repr" when the text is what an f-string prints for v,   *)
(* "negzero" for the text "-0.0", "other" for another spelling of v         *)
(* ("25.50", "26"), "bad" for text float() rejects.                         *)

\* round(): to the nearest integer, ties to the even one; x in hundredths
RoundHalfEven(x) ==
    LET f == x \div 100
        r == x % 100
    IN  IF r < 50 THEN f
        ELSE IF r > 50 THEN f + 1
        ELSE IF f % 2 = 0 THEN f ELSE f + 1

\* f"{round(c * 2) / 2}" for a coordinate c
FormatRounded(c) ==
    LET n == RoundHalfEven(2 * c)
    IN  [v |-> n * 50, form |-> IF n = 0 /\ c < 0 THEN "negzero" ELSE "repr"]

FloodKey(lat, lon) == <<FormatRounded(lat), FormatRounded(lon)>>

\* the scan without the 2 degree cutoff: the nearest entry at any distance
RECURSIVE FloodScanNoCutoff(_, _, _, _)
FloodScanNoCutoff(flood_lookup, n, lat, lon) ==
    IF n = 0 THEN [min_d2 |-> -1, nearest_depth |-> [v |-> 0, type |-> "number"]]
    ELSE LET prev == FloodScanNoCutoff(flood_lookup, n - 1, lat, lon)
             e    == flood_lookup[n]
         IN  IF e.key[1].form = "bad" \/ e.key[2].form = "bad" THEN prev
             ELSE LET d2 == (lat - e.key[1].v) * (lat - e.key[1].v)
                            + (lon - e.key[2].v) * (lon - e.key[2].v)
                  IN  IF prev.min_d2 = -1 \/ d2 < prev.min_d2
                      THEN [min_d2 |-> d2, nearest_depth |-> [v |-> e.depth, type |-> e.depth_type]]
                      ELSE prev

\* the scan of the fallback: the state (min_distance squared, nearest_depth)
\* after the first n entries; min_distance -1 stands for float('inf')
RECURSIVE FloodScan(_, _, _, _)
FloodScan(flood_lookup, n, lat, lon) ==
    IF n = 0 THEN [min_d2 |-> -1, nearest_depth |-> [v |-> 0, type |-> "number"]]
    ELSE LET prev == FloodScan(flood_lookup, n - 1, lat, lon)
             e    == flood_lookup[n]
         IN  IF e.key[1].form = "bad" \/ e.key[2].form = "bad" THEN prev
             ELSE LET d2 == (lat - e.key[1].v) * (lat - e.key[1].v)
                            + (lon - e.key[2].v) * (lon - e.key[2].v)
                  IN  IF d2 < 40000 /\ (prev.min_d2 = -1 \/ d2 < prev.min_d2)
                      THEN [min_d2 |-> d2, nearest_depth |-> [v |-> e.depth, type |-> e.depth_type]]
                      ELSE prev

\* returns [v, type]: the depth in cm, type "null" for a JSON value that is no number
query_flood_depth(flood_lookup, lat, lon) ==
    LET key  == FloodKey(lat, lon)
        hits == {n \in 1..Len(flood_lookup) : flood_lookup[n].key = key}
    IN  IF hits # {}
        THEN LET n == CHOOSE k \in hits : TRUE
             IN  [v |-> flood_lookup[n].depth, type |-> flood_lookup[n].depth_type]
        ELSE FloodScan(flood_lookup, Len(flood_lookup), lat, lon).nearest_depth

----------------------------------------------------------------------------
(* HazardEstimators *)

NoData == [annual_loss |-> 0, confidence |-> "No Data"]

\* an exception leaving a function body
Raised == [raised |-> TRUE]

\* an estimator with no try/except: the exception leaves it
Uncaught(r) == r

\* try: <body> / except Exception as e: print(...); return {'annual_loss': 0, 'confidence': 'Error'}
Caught(r) == IF r = Raised THEN [annual_loss |-> 0, confidence |-> "Error"] ELSE r

InsufficientData == [annual_loss |-> 0, confidence |-> "Insufficient Data"]

Estimate(loss, asset_value, confidence, details) ==
    [annual_loss |-> loss, annual_loss_pct |-> Pct(loss, asset_value),
     confidence |-> confidence, details |-> details]

(* calculate_hurricane_risk.  The archive is [status, rows]; a row is        *)
(* [SID, LAT, LON, ISO_TIME, USA_WIND] with NaN for a field pd.to_numeric    *)
(* coerced; ISO_TIME is the year of the timestamp.                           *)

\* decay with distance, then knots to mph; wind in hundredths of a mph
effective_wind_mph(wind_kt, distance_km) ==
    LET decay_factor      == Max2(0, ISqrt((200 - distance_km) * 5000))
        effective_wind_kt == (wind_kt * decay_factor) \div 10
    IN  (effective_wind_kt * 115078) \div 100000

\* storm_max_damage[storm_id] = max(storm_max_damage[storm_id], damage_ratio)
\* on the sum of the storm's damage ratios instead of their maximum
StormRowSum(smd, r, lat, lon, building_type) ==
    IF IsNaN(r.LAT) \/ IsNaN(r.LON) \/ IsNaN(r.USA_WIND) THEN smd
    ELSE LET distance_km == haversine(lat, lon, r.LAT, r.LON)
         IN  IF distance_km > 200 \/ effective_wind_mph(r.USA_WIND, distance_km) < 7400 THEN smd
             ELSE [x \in DOMAIN smd \cup {r.SID} |->
                      IF x = r.SID
                      THEN Get(smd, r.SID, 0)
                           + wind_to_damage_hazus(effective_wind_mph(r.USA_WIND, distance_km),
                                                  building_type)
                      ELSE smd[x]]

\* one iteration of the row loop on the dict storm_max_damage
StormRow(smd, r, lat, lon, building_type) ==
    IF IsNaN(r.LAT) \/ IsNaN(r.LON) \/ IsNaN(r.USA_WIND) THEN smd
    ELSE LET distance_km == haversine(lat, lon, r.LAT, r.LON)
         IN  IF distance_km > 200 THEN smd
             ELSE IF effective_wind_mph(r.USA_WIND, distance_km) < 7400 THEN smd
             ELSE LET damage_ratio == wind_to_damage_hazus(
                                          effective_wind_mph(r.USA_WIND, distance_km),
                                          building_type)
                  IN  [x \in DOMAIN smd \cup {r.SID} |->
                          IF x = r.SID THEN Max2(Get(smd, r.SID, 0), damage_ratio)
                          ELSE smd[x]]

RECURSIVE SumValues(_)
SumValues(m) ==
    IF DOMAIN m = {} THEN 0
    ELSE LET k == CHOOSE x \in DOMAIN m : TRUE
         IN  m[k] + SumValues([x \in DOMAIN m \ {k} |-> m[x]])

\* the result with 'High' from six storms on instead of five
HurricaneResultAboveFive(smd, asset_value) ==
    LET num_storms == Cardinality(DOMAIN smd)
    IN  IF num_storms = 0
        THEN [annual_loss |-> 0, annual_loss_pct |-> 0, confidence |-> "Low Risk",
              details |-> [text |-> "No damaging hurricanes in historical record", a |-> 0, b |-> 0]]
        ELSE Estimate(Money(((num_storms * (SumValues(smd) \div num_storms) * 22) \div 5000),
                            asset_value),
                      asset_value, IF num_storms > 5 THEN "High" ELSE "Medium",
                      [text |-> "unique storms in years (calibrated to NOAA data)",
                       a |-> num_storms, b |-> 50])

\* the code after the row loop
HurricaneResult(smd, asset_value) ==
    LET num_storms == Cardinality(DOMAIN smd)
    IN  IF num_storms = 0
        THEN [annual_loss |-> 0, annual_loss_pct |-> 0, confidence |-> "Low Risk",
              details |-> [text |-> "No damaging hurricanes in historical record", a |-> 0, b |-> 0]]
        ELSE LET avg_damage_ratio == SumValues(smd) \div num_storms
                 years_of_data    == 50
                 \* num_storms / years_of_data * avg_damage_ratio * 0.22, in ppm of the asset
                 calibrated_ppm   == (num_storms * avg_damage_ratio * 22) \div (years_of_data * 100)
             IN  Estimate(Money(calibrated_ppm, asset_value), asset_value,
                          IF num_storms >= 5 THEN "High" ELSE "Medium",
                          [text |-> "unique storms in years (calibrated to NOAA data)",
                           a |-> num_storms, b |-> years_of_data])

RECURSIVE HurricaneLoop(_, _, _, _, _)
HurricaneLoop(rows, n, lat, lon, building_type) ==
    IF n = 0 THEN <<>>
    ELSE StormRow(HurricaneLoop(rows, n - 1, lat, lon, building_type),
                      rows[n], lat, lon, building_type)

calculate_hurricane_risk(hurricane_data, archive, lat, lon, asset_value, building_type) ==
    IF hurricane_data = None THEN NoData
    ELSE Caught(IF archive.status # "ok" THEN Raised
                ELSE HurricaneResult(HurricaneLoop(archive.rows, Len(archive.rows),
                                                   lat, lon, building_type), asset_value))

(* calculate_flood_risk *)
calculate_flood_risk(flood_lookup, lat, lon, asset_value, building_type) ==
    LET flood_depth_m == query_flood_depth(flood_lookup, lat, lon)
    IN  Caught(
        \* a depth that is no number: `flood_depth_m <= 0` raises TypeError
        IF flood_depth_m.type # "number" THEN Raised
        ELSE IF flood_depth_m.v <= 0
        THEN [annual_loss |-> 0, annual_loss_pct |-> 0, confidence |-> "Low Risk",
              details |-> [text |-> "No significant flood risk in this location", a |-> 0, b |-> 0]]
        ELSE LET damage_ratio   == flood_depth_to_damage_hazus(flood_depth_m.v, building_type)
                 \* 0.01 * damage_ratio * 0.8
                 calibrated_ppm == (damage_ratio * 8) \div 1000
             IN  Estimate(Money(calibrated_ppm, asset_value), asset_value, "High",
                          [text |-> "100-year flood depth, damage ratio",
                           a |-> flood_depth_m.v, b |-> damage_ratio]))

(* The shape shared by the heat, drought and precipitation estimators: the   *)
(* valid entries of the extracted series (not masked, above -90, below the   *)
(* index's ceiling), their last 30 when there are 30, else the regional      *)
(* baseline.  Returns [confidence, value].                                   *)
IndexMean(series, lat, lon, index_name, ceiling) ==
    LET Ok(x)  == ~IsNaN(x) /\ x > -900 /\ x < ceiling
        valid  == SelectSeq(series, Ok)
        recent == IF Len(valid) >= 30 THEN SubSeq(valid, Len(valid) - 29, Len(valid)) ELSE valid
    IN  IF Len(valid) = 0
        THEN LET baseline == get_regional_baseline(lat, lon, index_name)
             IN  IF baseline.kind = "None" THEN [confidence |-> "Insufficient Data", value |-> 0]
                 ELSE [confidence |-> "Regional Baseline", value |-> baseline.v]
        ELSE [confidence |-> "Medium", value |-> SumSeq(recent) \div Len(recent)]

\* damage ratio in ppm of an average in tenths
HeatDamage(avg_max_temp) ==
    IF avg_max_temp < 300 THEN 0
    ELSE IF avg_max_temp < 350 THEN 1000 + (avg_max_temp - 300) * 20
    ELSE IF avg_max_temp < 400 THEN 2000 + (avg_max_temp - 350) * 40
    ELSE IF avg_max_temp < 450 THEN 4000 + (avg_max_temp - 400) * 80
    ELSE 8000 + (avg_max_temp - 450) * 120

DroughtDamage(avg_cdd) ==
    IF avg_cdd < 300 THEN 0
    ELSE IF avg_cdd < 600 THEN 500 + (avg_cdd - 300) * 3
    ELSE IF avg_cdd < 900 THEN 1500 + (avg_cdd - 600) * 5
    ELSE 3000 + (avg_cdd - 900) * 8

PrecipDamage(avg_rx5) ==
    IF avg_rx5 < 500 THEN 0
    ELSE IF avg_rx5 < 1000 THEN 1000 + (avg_rx5 - 500) * 4
    ELSE IF avg_rx5 < 2000 THEN 3000 + (avg_rx5 - 1000) * 6
    ELSE 9000 + (avg_rx5 - 2000) * 8

\* the damage function of the estimator that reads index_name
damage_ratio(index_name, avg) ==
    IF index_name = "txx" THEN HeatDamage(avg)
    ELSE IF index_name = "cdd" THEN DroughtDamage(avg)
    ELSE PrecipDamage(avg)

\* the estimate from an extracted series: the body of the estimators after
\* their extract_hadex3_timeseries calls
IndexEstimate(x, lat, lon, index_name, ceiling, calibration, text, asset_value) ==
    IF x.kind = "raise" THEN Raised
    ELSE IF x.kind = "None" THEN NoData
    ELSE LET m == IndexMean(x.data, lat, lon, index_name, ceiling)
         IN  IF m.confidence = "Insufficient Data" THEN InsufficientData
             ELSE Estimate(Money((damage_ratio(index_name, m.value) * calibration) \div 10,
                                 asset_value),
                           asset_value, m.confidence,
                           [text |-> text, a |-> m.value, b |-> 0])

calculate_heat_stress_risk(hadex3_data, lat, lon, asset_value) ==
    LET txx  == extract_hadex3_timeseries(hadex3_data, "txx", lat, lon)
        tr   == extract_hadex3_timeseries(hadex3_data, "tr", lat, lon)
        su   == extract_hadex3_timeseries(hadex3_data, "su", lat, lon)
        wsdi == extract_hadex3_timeseries(hadex3_data, "wsdi", lat, lon)
    IN  Caught(
        IF txx.kind = "raise" \/ tr.kind = "raise" \/ su.kind = "raise" \/ wsdi.kind = "raise"
        THEN Raised
        ELSE IndexEstimate(txx, lat, lon, "txx", 600, 5,
                           "Average max temperature", asset_value))

calculate_drought_risk(hadex3_data, lat, lon, asset_value) ==
    Caught(IndexEstimate(extract_hadex3_timeseries(hadex3_data, "cdd", lat, lon),
                         lat, lon, "cdd", 4000, 6,
                         "Average consecutive dry days", asset_value))

calculate_extreme_precipitation_risk(hadex3_data, lat, lon, asset_value) ==
    Caught(IndexEstimate(extract_hadex3_timeseries(hadex3_data, "rx5day", lat, lon),
                         lat, lon, "rx5day", 10000, 7,
                         "Average 5-day max precipitation", asset_value))

----------------------------------------------------------------------------
(* RiskAggregator: calculate_comprehensive_risk *)

\* default of the time_horizon parameter; no handler passes another
time_horizon == 30

\* the present-value loop from `year` on; g and d are (1 + climate_escalation)
\* and (1 + discount_rate) to the power year - 1, scaled by 10^4
RECURSIVE PresentValueFrom(_, _, _, _, _)
PresentValueFrom(total_annual_loss, year, horizon, g, d) ==
    IF year > horizon THEN 0
    ELSE LET g1 == (g * 102) \div 100
             d1 == (d * 110) \div 100
         IN  (total_annual_loss * g1) \div d1
             + PresentValueFrom(total_annual_loss, year + 1, horizon, g1, d1)

\* the loop over range(0, horizon): the first loss neither escalated nor
\* discounted, the last year left out
PresentValueFromYearZero(total_annual_loss, horizon) ==
    IF horizon = 0 THEN 0
    ELSE total_annual_loss
         + PresentValueFrom(total_annual_loss, 1, horizon - 1, 10000, 10000)

PresentValue(total_annual_loss, horizon) ==
    PresentValueFrom(total_annual_loss, 1, horizon, 10000, 10000)

\* a total that leaves the last estimator out
TotalAnnualLossOfFour(hurricane, flood, heat, drought, precip) ==
    Get(hurricane, "annual_loss", 0) + Get(flood, "annual_loss", 0)
    + Get(heat, "annual_loss", 0) + Get(drought, "annual_loss", 0)

TotalAnnualLoss(hurricane, flood, heat, drought, precip) ==
    Get(hurricane, "annual_loss", 0) + Get(flood, "annual_loss", 0)
    + Get(heat, "annual_loss", 0) + Get(drought, "annual_loss", 0)
    + Get(precip, "annual_loss", 0)

\* the code of calculate_comprehensive_risk after its five estimator calls
Aggregate(hurricane, flood, heat, drought, precip, lat, lon, asset_value, building_type) ==
    IF Raised \in {hurricane, flood, heat, drought, precip} THEN Raised
    ELSE LET total_annual_loss == TotalAnnualLoss(hurricane, flood, heat, drought, precip)
             present_value     == PresentValue(total_annual_loss, time_horizon)
         IN  [asset_value |-> asset_value,
              expected_annual_loss |-> total_annual_loss,
              expected_annual_loss_pct |-> Pct(total_annual_loss, asset_value),
              present_value_30yr |-> present_value,
              present_value_30yr_pct |-> Pct(present_value, asset_value),
              risk_breakdown |-> [hurricane |-> hurricane, flood |-> flood, heat_stress |-> heat,
                                  drought |-> drought, extreme_precipitation |-> precip],
              location |-> [latitude |-> lat, longitude |-> lon],
              parameters |-> [building_type |-> building_type, time_horizon |-> time_horizon,
                              discount_rate |-> 10, climate_escalation |-> 2]]

calculate_comprehensive_risk(engine, archive, lat, lon, asset_value, building_type) ==
    Aggregate(calculate_hurricane_risk(engine.hurricane_data, archive, lat, lon, asset_value, building_type),
              calculate_flood_risk(engine.flood_lookup, lat, lon, asset_value, building_type),
              calculate_heat_stress_risk(engine.hadex3_data, lat, lon, asset_value),
              calculate_drought_risk(engine.hadex3_data, lat, lon, asset_value),
              calculate_extreme_precipitation_risk(engine.hadex3_data, lat, lon, asset_value),
              lat, lon, asset_value, building_type)

----------------------------------------------------------------------------
(* ClimateRiskProcessorV4.__init__ and its loaders.  The files on disk:      *)
(*   disk.hadex3[index]  a dataset, or [status |-> "absent" / "unopenable"]  *)
(*   disk.flood          [status |-> "ok" / "absent" / "invalid", table]     *)
(*   disk.hurricane      [status |-> "ok" / "absent" / "unreadable", rows]   *)

Indices == {"txx", "tr", "su", "wsdi", "cdd", "rx1day", "rx5day"}

\* the object before __init__ has loaded anything
EngineNew == [stage |-> "new", hadex3_data |-> <<>>, flood_lookup |-> <<>>, hurricane_data |-> None]

\* the order of the indices dict
IndexOrder == <<"txx", "tr", "su", "wsdi", "cdd", "rx1day", "rx5day">>

\* a loader whose loop ends at the first file it cannot load
load_hadex3_data_until_failure(files) ==
    LET Loads(k)  == files[IndexOrder[k]].status \notin {"absent", "unopenable"}
        failed    == {k \in 1..Len(IndexOrder) : ~Loads(k)}
        loaded    == {IndexOrder[k] : k \in {j \in 1..Len(IndexOrder) : \A f \in failed : j < f}}
    IN  [i \in loaded |-> files[i]]

\* _load_hadex3_data: the files that exist and that h5netcdf.File opens
load_hadex3_data(files) ==
    [i \in {k \in Indices : files[k].status \notin {"absent", "unopenable"}} |-> files[i]]

\* _load_flood_lookup: {} unless the file exists and json.load reads it
load_flood_lookup(file) == IF file.status = "ok" THEN file.table ELSE <<>>

\* 'deferred' if os.path.exists(self.hurricane_file) else None
hurricane_data_of(archive) == IF archive.status # "absent" THEN "deferred" ELSE None

\* the engine __init__ returns
BuiltEngine(d) ==
    [stage |-> "ready", hadex3_data |-> load_hadex3_data(d.hadex3),
     flood_lookup |-> load_flood_lookup(d.flood),
     hurricane_data |-> hurricane_data_of(d.hurricane)]

----------------------------------------------------------------------------
(* Sample data the specifications draw from *)

GridLat == <<2625, 2500>>

GridLon == <<-8250, -8063, -7875>>

Cells == {<<i, j>> : i \in 1..Len(GridLat), j \in 1..Len(GridLon)}

SGood == <<380, 390, 400, 410>>

SAllNaN == <<NaN, NaN, NaN, NaN>>

SHalf == <<NaN, NaN, 400, 410>>

SQuarter == <<NaN, NaN, NaN, 410>>

SSentinel == <<-999, -999, -999, -999>>

\* 32 years: the last 30 differ from the first two
SLong == [i \in 1..32 |-> IF i <= 2 THEN 1000 ELSE 450]

SeriesKinds == {SGood, SAllNaN, SHalf, SQuarter, SSentinel}

Dataset(cells) == [status |-> "ok", latitude |-> GridLat, longitude |-> GridLon, var |-> cells]

GoodDataset == Dataset([c \in Cells |-> SGood])

LongDataset == Dataset([c \in Cells |-> SLong])

SWet == <<1200, 1100, 1300, 1250>>

WetDataset == Dataset([c \in Cells |-> SWet])

CorruptDataset == [status |-> "corrupt", latitude |-> <<>>, longitude |-> <<>>, var |-> <<>>]

AbsentFile == [status |-> "absent", latitude |-> <<>>, longitude |-> <<>>, var |-> <<>>]

FKey(lat, lon) == << [v |-> lat, form |-> "repr"], [v |-> lon, form |-> "repr"] >>

FloodTable ==
    << [key |-> FKey(2600, -8000), depth |-> 150, depth_type |-> "number"],
       [key |-> FKey(2550, -8050), depth |-> 40,  depth_type |-> "number"],
       [key |-> FKey(2800, -8000), depth |-> 0,   depth_type |-> "number"] >>

FloodTableNull ==
    << [key |-> FKey(2600, -8000), depth |-> 0, depth_type |-> "null"] >>

FloodFiles ==
    { [status |-> "ok", table |-> FloodTable],
      [status |-> "ok", table |-> FloodTableNull],
      [status |-> "absent", table |-> <<>>] }

SampleRows ==
    << [SID |-> "A", LAT |-> 2576, LON |-> -8019, ISO_TIME |-> 1992, USA_WIND |-> 130],
       [SID |-> "A", LAT |-> 2666, LON |-> -8019, ISO_TIME |-> 1992, USA_WIND |-> 130],
       [SID |-> "B", LAT |-> 2711, LON |-> -8019, ISO_TIME |-> 2005, USA_WIND |-> 100] >>

HurricaneFiles ==
    { [status |-> "ok", rows |-> SampleRows],
      [status |-> "unreadable", rows |-> <<>>],
      [status |-> "absent", rows |-> <<>>] }

\* one observation of a drawn track: near and strong, near and weak, 100 km
\* away, outside the 200 km radius, and a row with no wind value
ObsChoices ==
    { [SID |-> sid, LAT |-> o[1], LON |-> -8019, ISO_TIME |-> 2000, USA_WIND |-> o[2]] :
        sid \in {"A", "B"},
        o \in {<<2576, 130>>, <<2576, 60>>, <<2666, 130>>, <<2846, 130>>, <<2576, NaN>>} }

RECURSIVE Tracks(_)
Tracks(n) ==
    IF n = 0 THEN {<<>>}
    ELSE LET shorter == Tracks(n - 1)
         IN  shorter \cup {Append(tr, o) : tr \in {x \in shorter : Len(x) = n - 1}, o \in ObsChoices}

SampleDisk ==
    [hadex3 |-> [i \in Indices |-> IF i = "cdd" THEN LongDataset ELSE GoodDataset],
     flood |-> [status |-> "ok", table |-> FloodTable],
     hurricane |-> [status |-> "ok", rows |-> SampleRows]]

Body(lat, lon, asset_value, building_type) ==
    [has_coords |-> TRUE, latitude |-> lat, longitude |-> lon,
     asset_value |-> asset_value, building_type |-> building_type]

Request(endpoint, risk_type, body) == [endpoint |-> endpoint, risk_type |-> risk_type, body |-> body]

NoRequest == Request("none", "none", Body(0, 0, 0, "none"))

----------------------------------------------------------------------------
(* app.py: the request handlers.  A thread runs one request:                *)
(*   idle -> assess_validate | specific_parse -> gp_check -> (constructor)  *)
(*        -> gp_return -> risk -> ... -> done                               *)

Respond(status, body) == [status |-> status, body |-> body]

NoResponse == Respond(0, "none")

Finish(t, status, body) ==
    /\ response' = [response EXCEPT ![t] = Respond(status, body)]
    /\ pc' = [pc EXCEPT ![t] = "done"]

\* the request arrives and Flask routes it
Receive(t, r) ==
    /\ pc[t] = "idle"
    /\ req' = [req EXCEPT ![t] = r]
    /\ pc' = [pc EXCEPT ![t] = IF r.endpoint = "assess" THEN "assess_validate" ELSE "specific_parse"]
    /\ UNCHANGED <<disk, processor, engines, proc, storm_max_damage, row, ts, est, response>>
    /\ UNCHANGED <<call, result>>

\* assess_risk up to its get_processor() call: required parameters and ranges
Assess_Validate(t) ==
    /\ pc[t] = "assess_validate"
    /\ LET b == req[t].body
       IN  IF ~b.has_coords
           THEN Finish(t, 400, "Missing required parameters: latitude and longitude")
           ELSE IF ~(-9000 <= b.latitude /\ b.latitude <= 9000)
           THEN Finish(t, 400, "Latitude must be between -90 and 90")
           ELSE IF ~(-18000 <= b.longitude /\ b.longitude <= 18000)
           THEN Finish(t, 400, "Longitude must be between -180 and 180")
           ELSE IF b.asset_value <= 0
           THEN Finish(t, 400, "Asset value must be positive")
           ELSE pc' = [pc EXCEPT ![t] = "gp_check"] /\ UNCHANGED response
    /\ UNCHANGED <<disk, processor, engines, req, proc, storm_max_damage, row, ts, est>>
    /\ UNCHANGED <<call, result>>

\* assess_specific_risk up to its get_processor() call: required parameters only
Specific_Parse(t) ==
    /\ pc[t] = "specific_parse"
    /\ IF ~req[t].body.has_coords
       THEN Finish(t, 400, "Missing required parameters: latitude and longitude")
       ELSE pc' = [pc EXCEPT ![t] = "gp_check"] /\ UNCHANGED response
    /\ UNCHANGED <<disk, processor, engines, req, proc, storm_max_damage, row, ts, est>>
    /\ UNCHANGED <<call, result>>

(* get_processor *)

\* if processor is None:
GP_Check(t) ==
    /\ pc[t] = "gp_check"
    /\ pc' = [pc EXCEPT ![t] = IF processor = NoEngine THEN "ctor_new" ELSE "gp_return"]
    /\ UNCHANGED <<disk, processor, engines, req, proc, storm_max_damage, row, ts, est, response>>
    /\ UNCHANGED <<call, result>>

\* a constructor that stores the object in the global before loading into it
Ctor_NewPublished(t) ==
    /\ pc[t] = "ctor_new"
    /\ engines' = [engines EXCEPT ![t] = EngineNew]
    /\ processor' = t
    /\ pc' = [pc EXCEPT ![t] = "ctor_hadex3"]
    /\ UNCHANGED <<disk, req, proc, storm_max_damage, row, ts, est, response>>
    /\ UNCHANGED <<call, result>>

\* ClimateRiskProcessorV4(data_dir=...): the object exists, nothing is loaded
Ctor_New(t) ==
    /\ pc[t] = "ctor_new"
    /\ engines' = [engines EXCEPT ![t] = EngineNew]
    /\ pc' = [pc EXCEPT ![t] = "ctor_hadex3"]
    /\ UNCHANGED <<disk, processor, req, proc, storm_max_damage, row, ts, est, response>>
    /\ UNCHANGED <<call, result>>

\* self.hadex3_data = {}; self._load_hadex3_data()
Ctor_LoadHadex3(t) ==
    /\ pc[t] = "ctor_hadex3"
    /\ engines' = [engines EXCEPT ![t].hadex3_data = load_hadex3_data(disk.hadex3),
                                  ![t].stage = "hadex3"]
    /\ pc' = [pc EXCEPT ![t] = "ctor_flood"]
    /\ UNCHANGED <<disk, processor, req, proc, storm_max_damage, row, ts, est, response>>
    /\ UNCHANGED <<call, result>>

\* self.flood_lookup = {}; self._load_flood_lookup()
Ctor_LoadFlood(t) ==
    /\ pc[t] = "ctor_flood"
    /\ engines' = [engines EXCEPT ![t].flood_lookup = load_flood_lookup(disk.flood),
                                  ![t].stage = "flood"]
    /\ pc' = [pc EXCEPT ![t] = "ctor_hurricane"]
    /\ UNCHANGED <<disk, processor, req, proc, storm_max_damage, row, ts, est, response>>
    /\ UNCHANGED <<call, result>>

\* self.hurricane_data = ...; __init__ returns
Ctor_Hurricane(t) ==
    /\ pc[t] = "ctor_hurricane"
    /\ engines' = [engines EXCEPT ![t].hurricane_data = hurricane_data_of(disk.hurricane),
                                  ![t].stage = "ready"]
    /\ pc' = [pc EXCEPT ![t] = "gp_assign"]
    /\ UNCHANGED <<disk, processor, req, proc, storm_max_damage, row, ts, est, response>>
    /\ UNCHANGED <<call, result>>

\* processor = <the constructed engine>
GP_Assign(t) ==
    /\ pc[t] = "gp_assign"
    /\ processor' = t
    /\ pc' = [pc EXCEPT ![t] = "gp_return"]
    /\ UNCHANGED <<disk, engines, req, proc, storm_max_damage, row, ts, est, response>>
    /\ UNCHANGED <<call, result>>

\* return processor; proc = get_processor()
GP_Return(t) ==
    /\ pc[t] = "gp_return"
    /\ proc' = [proc EXCEPT ![t] = processor]
    /\ pc' = [pc EXCEPT ![t] = "risk"]
    /\ UNCHANGED <<disk, processor, engines, req, storm_max_damage, row, ts, est, response>>
    /\ UNCHANGED <<call, result>>

\* risk_methods of assess_specific_risk: route name -> risk_breakdown name
risk_methods ==
    [hurricane |-> "hurricane", flood |-> "flood", heat |-> "heat_stress",
     drought |-> "drought", precipitation |-> "extreme_precipitation"]

\* one estimator, by its risk_breakdown name
Estimator(hazard, engine, archive, b) ==
    IF hazard = "hurricane"
    THEN calculate_hurricane_risk(engine.hurricane_data, archive, b.latitude, b.longitude,
                                  b.asset_value, b.building_type)
    ELSE IF hazard = "flood"
    THEN calculate_flood_risk(engine.flood_lookup, b.latitude, b.longitude,
                              b.asset_value, b.building_type)
    ELSE IF hazard = "heat_stress"
    THEN calculate_heat_stress_risk(engine.hadex3_data, b.latitude, b.longitude, b.asset_value)
    ELSE IF hazard = "drought"
    THEN calculate_drought_risk(engine.hadex3_data, b.latitude, b.longitude, b.asset_value)
    ELSE calculate_extreme_precipitation_risk(engine.hadex3_data, b.latitude, b.longitude,
                                              b.asset_value)

Hazards == {"hurricane", "flood", "heat_stress", "drought", "extreme_precipitation"}

----------------------------------------------------------------------------
(* calculate_comprehensive_risk, and the single estimator of                *)
(* assess_specific_risk, statement by statement:                            *)
(*   risk -> hurricane (-> rows) -> flood -> heat_stress -> drought         *)
(*        -> extreme_precipitation -> aggregate -> done                     *)

NextStep ==
    [hurricane |-> "flood", flood |-> "heat_stress", heat_stress |-> "drought",
     drought |-> "extreme_precipitation", extreme_precipitation |-> "aggregate"]

\* one storm_max_damage dict kept on the engine and used by every call
SharedStormMap(t) == 1

\* the storm_max_damage dict thread t's hurricane call works on: a local of the call
StormMapOf(t) == t

\* an estimator returns `value` (or raises, value = Raised) to its caller
Return(t, hazard, value) ==
    /\ est' = [est EXCEPT ![t] = [h \in DOMAIN est[t] \cup {hazard} |->
                                     IF h = hazard THEN value ELSE est[t][h]]]
    /\ IF value = Raised THEN Finish(t, 500, "Internal error")
       ELSE IF req[t].endpoint = "assess"
       THEN pc' = [pc EXCEPT ![t] = NextStep[hazard]] /\ UNCHANGED response
       ELSE Finish(t, 200, value)

Risk_Begin(t) ==
    /\ pc[t] = "risk"
    /\ IF req[t].endpoint = "assess"
       THEN pc' = [pc EXCEPT ![t] = "hurricane"] /\ UNCHANGED response
       ELSE IF req[t].risk_type \notin DOMAIN risk_methods
       THEN Finish(t, 400, "Unknown risk type")
       ELSE pc' = [pc EXCEPT ![t] = risk_methods[req[t].risk_type]] /\ UNCHANGED response
    /\ UNCHANGED <<disk, processor, engines, req, proc, storm_max_damage, row, ts, est>>
    /\ UNCHANGED <<call, result>>

\* calculate_hurricane_risk up to the row loop
Hurricane_Begin(t) ==
    /\ pc[t] = "hurricane"
    /\ IF engines[proc[t]].hurricane_data = None
       THEN Return(t, "hurricane", NoData) /\ UNCHANGED <<storm_max_damage, row>>
       ELSE IF disk.hurricane.status # "ok"
       THEN Return(t, "hurricane", Caught(Raised)) /\ UNCHANGED <<storm_max_damage, row>>
       ELSE /\ storm_max_damage' = [storm_max_damage EXCEPT ![StormMapOf(t)] = <<>>]
            /\ row' = [row EXCEPT ![t] = 0]
            /\ pc' = [pc EXCEPT ![t] = "rows"]
            /\ UNCHANGED <<est, response>>
    /\ UNCHANGED <<disk, processor, engines, req, proc, ts>>
    /\ UNCHANGED <<call, result>>

\* one row of the archive
Hurricane_Row(t) ==
    /\ pc[t] = "rows"
    /\ row[t] < Len(disk.hurricane.rows)
    /\ storm_max_damage' =
           [storm_max_damage EXCEPT ![StormMapOf(t)] =
               StormRow(storm_max_damage[StormMapOf(t)], disk.hurricane.rows[row[t] + 1],
                        req[t].body.latitude, req[t].body.longitude, req[t].body.building_type)]
    /\ row' = [row EXCEPT ![t] = row[t] + 1]
    /\ UNCHANGED <<disk, processor, engines, pc, req, proc, ts, est, response>>
    /\ UNCHANGED <<call, result>>

\* calculate_hurricane_risk after the row loop
Hurricane_End(t) ==
    /\ pc[t] = "rows"
    /\ row[t] = Len(disk.hurricane.rows)
    /\ Return(t, "hurricane",
              Caught(HurricaneResult(storm_max_damage[StormMapOf(t)], req[t].body.asset_value)))
    /\ UNCHANGED <<disk, processor, engines, req, proc, storm_max_damage, row, ts>>
    /\ UNCHANGED <<call, result>>

Flood_Step(t) ==
    /\ pc[t] = "flood"
    /\ Return(t, "flood", calculate_flood_risk(engines[proc[t]].flood_lookup,
                  req[t].body.latitude, req[t].body.longitude,
                  req[t].body.asset_value, req[t].body.building_type))
    /\ UNCHANGED <<disk, processor, engines, req, proc, storm_max_damage, row, ts>>
    /\ UNCHANGED <<call, result>>

Heat_Step(t) ==
    /\ pc[t] = "heat_stress"
    /\ ts' = [ts EXCEPT ![t] = extract_hadex3_timeseries(engines[proc[t]].hadex3_data, "txx",
                                   req[t].body.latitude, req[t].body.longitude)]
    /\ Return(t, "heat_stress", calculate_heat_stress_risk(engines[proc[t]].hadex3_data,
                  req[t].body.latitude, req[t].body.longitude, req[t].body.asset_value))
    /\ UNCHANGED <<disk, processor, engines, req, proc, storm_max_damage, row>>
    /\ UNCHANGED <<call, result>>

Drought_Step(t) ==
    /\ pc[t] = "drought"
    /\ ts' = [ts EXCEPT ![t] = extract_hadex3_timeseries(engines[proc[t]].hadex3_data, "cdd",
                                   req[t].body.latitude, req[t].body.longitude)]
    /\ Return(t, "drought", calculate_drought_risk(engines[proc[t]].hadex3_data,
                  req[t].body.latitude, req[t].body.longitude, req[t].body.asset_value))
    /\ UNCHANGED <<disk, processor, engines, req, proc, storm_max_damage, row>>
    /\ UNCHANGED <<call, result>>

Precip_Step(t) ==
    /\ pc[t] = "extreme_precipitation"
    /\ ts' = [ts EXCEPT ![t] = extract_hadex3_timeseries(engines[proc[t]].hadex3_data, "rx5day",
                                   req[t].body.latitude, req[t].body.longitude)]
    /\ Return(t, "extreme_precipitation",
              calculate_extreme_precipitation_risk(engines[proc[t]].hadex3_data,
                  req[t].body.latitude, req[t].body.longitude, req[t].body.asset_value))
    /\ UNCHANGED <<disk, processor, engines, req, proc, storm_max_damage, row>>
    /\ UNCHANGED <<call, result>>

Aggregate_Step(t) ==
    /\ pc[t] = "aggregate"
    /\ Finish(t, 200, Aggregate(est[t].hurricane, est[t].flood, est[t].heat_stress,
                                est[t].drought, est[t].extreme_precipitation,
                                req[t].body.latitude, req[t].body.longitude,
                                req[t].body.asset_value, req[t].body.building_type))
    /\ UNCHANGED <<disk, processor, engines, req, proc, storm_max_damage, row, ts, est>>
    /\ UNCHANGED <<call, result>>

----------------------------------------------------------------------------
(* Specifications *)

NoEngineYet == [stage |-> "none", hadex3_data |-> <<>>, flood_lookup |-> <<>>, hurricane_data |-> None]

NoSeries == [kind |-> "unset"]

Miami == <<2576, -8019>>

North == <<2666, -8019>>

NoRegion == <<6000, 1000>>

\* no function is being called directly
NoCall == [fn |-> "None"]

NoResult == [kind |-> "None"]

\* the locals of every thread before its request
LocalsInit ==
    /\ storm_max_damage = [t \in Threads |-> <<>>]
    /\ row = [t \in Threads |-> 0]
    /\ ts = [t \in Threads |-> NoSeries]
    /\ est = [t \in Threads |-> <<>>]
    /\ response = [t \in Threads |-> NoResponse]
    /\ call = NoCall
    /\ result = NoResult

\* an engine constructed at startup, and one request (thread 1) about to
\* call into it; the other threads stay idle
OneRequest(d, r) ==
    /\ disk = d
    /\ processor = 1
    /\ engines = [t \in Threads |-> IF t = 1 THEN BuiltEngine(d) ELSE NoEngineYet]
    /\ pc = [t \in Threads |-> IF t = 1 THEN "risk" ELSE "idle"]
    /\ req = [t \in Threads |-> IF t = 1 THEN r ELSE NoRequest]
    /\ proc = [t \in Threads |-> IF t = 1 THEN 1 ELSE NoEngine]
    /\ LocalsInit

(* Spec: the server from process start, requests on concurrent threads *)

MissingBody == [has_coords |-> FALSE, latitude |-> 0, longitude |-> 0,
                asset_value |-> 1000000, building_type |-> "wood_frame"]

ServerRequests ==
    { Request("assess", "", Body(2576, -8019, 1000000, "wood_frame")),
      Request("assess", "", Body(9500, -8019, 1000000, "wood_frame")),
      Request("assess", "", Body(2576, 20000, 1000000, "wood_frame")),
      Request("assess", "", Body(2576, -8019, 0, "wood_frame")),
      Request("assess", "", MissingBody),
      Request("specific", "heat", Body(9500, -8019, 1000000, "wood_frame")),
      Request("specific", "hurricane", Body(2576, -8019, 1000000, "concrete")),
      Request("specific", "bogus", Body(2576, -8019, 1000000, "wood_frame")),
      Request("specific", "flood", MissingBody) }

Init ==
    /\ disk = SampleDisk
    /\ processor = NoEngine
    /\ engines = [t \in Threads |-> NoEngineYet]
    /\ pc = [t \in Threads |-> "idle"]
    /\ req = [t \in Threads |-> NoRequest]
    /\ proc = [t \in Threads |-> NoEngine]
    /\ LocalsInit

Next ==
    \E t \in Threads :
        \/ \E r \in ServerRequests : Receive(t, r)
        \/ Assess_Validate(t)
        \/ Specific_Parse(t)
        \/ GP_Check(t)
        \/ Ctor_New(t)
        \/ Ctor_LoadHadex3(t)
        \/ Ctor_LoadFlood(t)
        \/ Ctor_Hurricane(t)
        \/ GP_Assign(t)
        \/ GP_Return(t)
        \/ Risk_Begin(t)
        \/ Hurricane_Begin(t)
        \/ Hurricane_Row(t)
        \/ Hurricane_End(t)
        \/ Flood_Step(t)
        \/ Heat_Step(t)
        \/ Drought_Step(t)
        \/ Precip_Step(t)
        \/ Aggregate_Step(t)

Spec == Init /\ [][Next]_vars

(* SpecConcurrent: assessments running concurrently on one constructed engine *)

ConcurrentRequests ==
    { Request("assess", "", Body(p[1], p[2], 1000000, b)) :
        p \in {Miami, North}, b \in {"wood_frame", "concrete"} }

InitConcurrent ==
    /\ disk = SampleDisk
    /\ processor = 1
    /\ engines = [t \in Threads |-> IF t = 1 THEN BuiltEngine(SampleDisk) ELSE NoEngineYet]
    /\ pc = [t \in Threads |-> "risk"]
    /\ req \in [Threads -> ConcurrentRequests]
    /\ proc = [t \in Threads |-> 1]
    /\ LocalsInit

NextAssess ==
    \E t \in Threads :
        \/ Risk_Begin(t)
        \/ Hurricane_Begin(t)
        \/ Hurricane_Row(t)
        \/ Hurricane_End(t)
        \/ Flood_Step(t)
        \/ Heat_Step(t)
        \/ Drought_Step(t)
        \/ Precip_Step(t)
        \/ Aggregate_Step(t)

SpecConcurrent == InitConcurrent /\ [][NextAssess]_vars

(* SpecData: one comprehensive assessment, over the states of the data files *)

FileStates == {"ok", "corrupt", "absent"}

\* the file of index i in a drawn state; rx5day holds values that do damage
FileIn(i, state) ==
    IF state = "corrupt" THEN CorruptDataset
    ELSE IF state = "absent" THEN AbsentFile
    ELSE IF i = "rx5day" THEN WetDataset
    ELSE GoodDataset

DataDisks ==
    { [hadex3 |-> [i \in Indices |-> IF i = "rx1day" THEN GoodDataset ELSE FileIn(i, f[i])],
       flood |-> fl, hurricane |-> hu] :
        f \in [Indices \ {"rx1day"} -> FileStates], fl \in FloodFiles, hu \in HurricaneFiles }

DataRequests ==
    { Request("assess", "", Body(Miami[1], Miami[2], a, "wood_frame")) : a \in {1000000, 250000} }

InitData == \E d \in DataDisks, r \in DataRequests : OneRequest(d, r)

SpecData == InitData /\ [][NextAssess]_vars

(* SpecResolver: the heat, drought and precipitation estimators over gridded data *)

ResolverDisks ==
    { [hadex3 |-> [i \in Indices |-> Dataset(cells)],
       flood |-> [status |-> "absent", table |-> <<>>],
       hurricane |-> [status |-> "absent", rows |-> <<>>]] :
        cells \in [Cells -> SeriesKinds] }

ResolverRequests ==
    { Request("specific", k, Body(p[1], p[2], 1000000, "wood_frame")) :
        k \in {"heat", "drought", "precipitation"}, p \in {Miami, NoRegion} }

InitResolver == \E d \in ResolverDisks, r \in ResolverRequests : OneRequest(d, r)

NextResolver ==
    \E t \in Threads :
        \/ Risk_Begin(t)
        \/ Heat_Step(t)
        \/ Drought_Step(t)
        \/ Precip_Step(t)

SpecResolver == InitResolver /\ [][NextResolver]_vars

(* SpecHurricane: the hurricane estimator over drawn tracks *)

\* names of the storms of a drawn season
StormNames == <<"S1", "S2", "S3", "S4", "S5", "S6", "S7", "S8">>

\* a season: n storms of 130 kt passing over the query point, then, when
\* asked for, a storm of 60 kt and a second observation of the first storm
Season(n, weak, again) ==
    [i \in 1..n |-> [SID |-> StormNames[i], LAT |-> 2576, LON |-> -8019, ISO_TIME |-> 2000,
                     USA_WIND |-> 130]]
    \o (IF weak
        THEN << [SID |-> "W", LAT |-> 2576, LON |-> -8019, ISO_TIME |-> 2000, USA_WIND |-> 60] >>
        ELSE <<>>)
    \o (IF again /\ n >= 1
        THEN << [SID |-> StormNames[1], LAT |-> 2666, LON |-> -8019, ISO_TIME |-> 2000,
                 USA_WIND |-> 130] >>
        ELSE <<>>)

Seasons == {Season(n, weak, again) : n \in 0..MaxStorms, weak \in BOOLEAN, again \in BOOLEAN}

\* the first years of the drawn records; each record ends in 2024
RecordStarts == {1925, 1975, 2000, 2024}

\* a record from first_year to 2024 that holds the same two damaging storms
\* whatever its span, and a storm of 60 kt
Record(first_year) ==
    << [SID |-> "S1", LAT |-> 2576, LON |-> -8019, ISO_TIME |-> first_year, USA_WIND |-> 130],
       [SID |-> "W",  LAT |-> 2576, LON |-> -8019, ISO_TIME |-> first_year, USA_WIND |-> 60],
       [SID |-> "S2", LAT |-> 2666, LON |-> -8019, ISO_TIME |-> 2024, USA_WIND |-> 130] >>

Records == {Record(y) : y \in RecordStarts}

HurricaneArchives ==
    { [status |-> "ok", rows |-> tk] : tk \in Tracks(MaxObs) \cup Seasons \cup Records }
    \cup { [status |-> "unreadable", rows |-> <<>>], [status |-> "absent", rows |-> <<>>] }

HurricaneDisks ==
    { [hadex3 |-> [i \in Indices |-> AbsentFile],
       flood |-> [status |-> "absent", table |-> <<>>],
       hurricane |-> hu] : hu \in HurricaneArchives }

HurricaneRequests ==
    { Request("specific", "hurricane", Body(Miami[1], Miami[2], 1000000, b)) :
        b \in {"wood_frame", "concrete"} }

InitHurricane == \E d \in HurricaneDisks, r \in HurricaneRequests : OneRequest(d, r)

NextHurricane ==
    \E t \in Threads :
        \/ Risk_Begin(t)
        \/ Hurricane_Begin(t)
        \/ Hurricane_Row(t)
        \/ Hurricane_End(t)

SpecHurricane == InitHurricane /\ [][NextHurricane]_vars

----------------------------------------------------------------------------
(* Direct calls of the engine's functions.  `call` holds the function's     *)
(* name and arguments, `result` what it returned; the server is idle.       *)

Returned(v) == [kind |-> "value", value |-> v]

ServerIdle ==
    /\ disk = SampleDisk
    /\ processor = NoEngine
    /\ engines = [t \in Threads |-> NoEngineYet]
    /\ pc = [t \in Threads |-> "idle"]
    /\ req = [t \in Threads |-> NoRequest]
    /\ proc = [t \in Threads |-> NoEngine]
    /\ storm_max_damage = [t \in Threads |-> <<>>]
    /\ row = [t \in Threads |-> 0]
    /\ ts = [t \in Threads |-> NoSeries]
    /\ est = [t \in Threads |-> <<>>]
    /\ response = [t \in Threads |-> NoResponse]

ServerUnchanged ==
    UNCHANGED <<disk, processor, engines, pc, req, proc, storm_max_damage, row, ts, est,
                response>>

(* SpecWind: wind_to_damage_hazus over wind speeds and building types *)

\* the curve's breakpoints, in hundredths of a mph
WindBreakpoints == {7400, 9500, 11000, 13000, 15700}

\* hundredths of a mph drawn on each side of a breakpoint
WindWindow == 2

\* the coarse sweep runs to 5 mph times this
MaxWindStep == 60

\* wind speeds: hundredth by hundredth around each breakpoint, a sweep in
\* steps of 5 mph, a negative reading and two far beyond any storm
Winds ==
    { b + d : b \in WindBreakpoints, d \in (-WindWindow)..WindWindow }
        \cup { 500 * k : k \in 0..MaxWindStep }
        \cup { -100, 100000, 1000000 }

\* 'steel' is a type the curve has no branch for
BuildingTypes == {"wood_frame", "concrete", "steel"}

WindCalls ==
    { [fn |-> "wind_to_damage_hazus", wind_mph |-> w, building_type |-> b] :
        w \in Winds, b \in BuildingTypes }

Call_wind_to_damage_hazus ==
    /\ call.fn = "wind_to_damage_hazus"
    /\ result = NoResult
    /\ result' = Returned(wind_to_damage_hazus(call.wind_mph, call.building_type))
    /\ UNCHANGED call
    /\ ServerUnchanged

InitWind == ServerIdle /\ call \in WindCalls /\ result = NoResult

NextWind == Call_wind_to_damage_hazus

SpecWind == InitWind /\ [][NextWind]_vars

(* SpecFloodCurve: flood_depth_to_damage_hazus over depths and building types *)

\* the deepest water of the sweep, in cm (the last control point is at 500)
MaxDepthCm == 620

\* depths centimetre by centimetre from below the first control point to
\* beyond the last, and two far beyond any flood
Depths == (-20)..MaxDepthCm \cup {10000, 1000000}

\* 'warehouse' is a type with no curve of its own
FloodBuildingTypes == {"residential", "commercial", "industrial", "warehouse"}

FloodCurveCalls ==
    { [fn |-> "flood_depth_to_damage_hazus", depth_m |-> d, building_type |-> b] :
        d \in Depths, b \in FloodBuildingTypes }

Call_flood_depth_to_damage_hazus ==
    /\ call.fn = "flood_depth_to_damage_hazus"
    /\ result = NoResult
    /\ result' = Returned(flood_depth_to_damage_hazus(call.depth_m, call.building_type))
    /\ UNCHANGED call
    /\ ServerUnchanged

InitFloodCurve == ServerIdle /\ call \in FloodCurveCalls /\ result = NoResult

NextFloodCurve == Call_flood_depth_to_damage_hazus

SpecFloodCurve == InitFloodCurve /\ [][NextFloodCurve]_vars

(* SpecFloodLookup: query_flood_depth over tables and coordinates *)

\* latitudes and longitudes around the entries of FloodTable: on cell
\* centres, on cell edges and between them
LookupLats == {2530, 2550, 2574, 2575, 2576, 2580, 2600, 2625, 2650, 2800}

LookupLons == {-8075, -8070, -8050, -8026, -8025, -8019, -8000, -7975}

\* a table whose only entry is 2 degrees or more from most of the queries
FarTable == << [key |-> FKey(2800, -8000), depth |-> 300, depth_type |-> "number"] >>

\* a table with a key float() rejects and a key spelled "26,-80"
MixedTable ==
    << [key |-> << [v |-> 0, form |-> "bad"], [v |-> 0, form |-> "bad"] >>,
        depth |-> 500, depth_type |-> "number"],
       [key |-> << [v |-> 2600, form |-> "other"], [v |-> -8000, form |-> "other"] >>,
        depth |-> 150, depth_type |-> "number"],
       [key |-> FKey(2550, -8050), depth |-> 40, depth_type |-> "number"] >>

FloodLookupCalls ==
    { [fn |-> "query_flood_depth", flood_lookup |-> tb, lat |-> la, lon |-> lo] :
        tb \in {FloodTable, FloodTableNull, FarTable, MixedTable, <<>>},
        la \in LookupLats, lo \in LookupLons }

Call_query_flood_depth ==
    /\ call.fn = "query_flood_depth"
    /\ result = NoResult
    /\ result' = Returned(query_flood_depth(call.flood_lookup, call.lat, call.lon))
    /\ UNCHANGED call
    /\ ServerUnchanged

InitFloodLookup == ServerIdle /\ call \in FloodLookupCalls /\ result = NoResult

NextFloodLookup == Call_query_flood_depth

SpecFloodLookup == InitFloodLookup /\ [][NextFloodLookup]_vars

(* SpecPresentValue: the present-value loop of calculate_comprehensive_risk *)
(* over totals and horizons                                                *)

\* the longest horizon drawn (the handlers use the default, 30)
MaxHorizon == 30

AnnualTotals == {0, 1, 50, 1000, 2500, 10000}

PresentValueCalls ==
    { [fn |-> "present_value", total_annual_loss |-> t, time_horizon |-> h] :
        t \in AnnualTotals, h \in 0..MaxHorizon }

Call_present_value ==
    /\ call.fn = "present_value"
    /\ result = NoResult
    /\ result' = Returned(PresentValue(call.total_annual_loss, call.time_horizon))
    /\ UNCHANGED call
    /\ ServerUnchanged

InitPresentValue == ServerIdle /\ call \in PresentValueCalls /\ result = NoResult

NextPresentValue == Call_present_value

SpecPresentValue == InitPresentValue /\ [][NextPresentValue]_vars

(* SpecBaseline: get_regional_baseline over coordinates and index names *)

\* latitudes and longitudes inside the boxes, on their edges, where boxes
\* overlap and outside every box
BaselineLats ==
    {-9000, -4000, -3000, -2500, -1000, 0, 500, 1000, 2500, 3500, 3750, 4000, 4500, 5000,
     5001, 6000}

BaselineLons ==
    {-12500, -10500, -9500, -9000, -8500, -8000, -7500, -500, 0, 1000, 2500, 10000, 14000,
     14500, 18000}

\* the names index_map knows and one it does not
BaselineIndexNames == {"cdd", "txx", "rx5day", "tr", "su", "wsdi", "rx1day", "r95p"}

BaselineCalls ==
    { [fn |-> "get_regional_baseline", lat |-> la, lon |-> lo, index_name |-> i] :
        la \in BaselineLats, lo \in BaselineLons, i \in BaselineIndexNames }

Call_get_regional_baseline ==
    /\ call.fn = "get_regional_baseline"
    /\ result = NoResult
    /\ result' = Returned(get_regional_baseline(call.lat, call.lon, call.index_name))
    /\ UNCHANGED call
    /\ ServerUnchanged

InitBaseline == ServerIdle /\ call \in BaselineCalls /\ result = NoResult

NextBaseline == Call_get_regional_baseline

SpecBaseline == InitBaseline /\ [][NextBaseline]_vars

----------------------------------------------------------------------------
(* Properties *)

AnnualLoss(entry) == Get(entry, "annual_loss", 0)

\* an assessment request that ran to its response
Assessed(t) == pc[t] = "done" /\ req[t].endpoint = "assess"

\* C1: in every assessment calculate_comprehensive_risk returns,
\* expected_annual_loss is the sum of the annual_loss of the five
\* risk_breakdown entries (an entry without the field counts as zero); with
\* zero flood and hurricane estimates it is heat + drought + precipitation.
C1_TotalIsSumOfFive ==
    \A t \in Threads :
        Assessed(t) /\ response[t].status = 200 =>
            LET rb    == response[t].body.risk_breakdown
                total == response[t].body.expected_annual_loss
            IN  /\ DOMAIN rb = Hazards
                /\ total = AnnualLoss(rb.hurricane) + AnnualLoss(rb.flood)
                           + AnnualLoss(rb.heat_stress) + AnnualLoss(rb.drought)
                           + AnnualLoss(rb.extreme_precipitation)
                /\ (AnnualLoss(rb.hurricane) = 0 /\ AnnualLoss(rb.flood) = 0 =>
                       total = AnnualLoss(rb.heat_stress) + AnnualLoss(rb.drought)
                               + AnnualLoss(rb.extreme_precipitation))

\* an assessment with no flood and no hurricane loss and a loss from each of
\* heat, drought and precipitation
C1_Witness ==
    \E t \in Threads :
        /\ Assessed(t) /\ response[t].status = 200
        /\ response[t].body.risk_breakdown.hurricane.annual_loss = 0
        /\ response[t].body.risk_breakdown.flood.annual_loss = 0
        /\ response[t].body.risk_breakdown.heat_stress.annual_loss > 0
        /\ response[t].body.risk_breakdown.drought.annual_loss > 0
        /\ response[t].body.risk_breakdown.extreme_precipitation.annual_loss > 0
        /\ response[t].body.expected_annual_loss > 0

\* C2: with asset_value > 0 and any combination of estimator failures,
\* calculate_comprehensive_risk does not abort: each of the five estimators
\* returned a result record, and the assessment holds the five entries, the
\* total and the present value.
C2_AggregationNeverAborts ==
    \A t \in Threads :
        Assessed(t) /\ req[t].body.asset_value > 0 =>
            /\ response[t].status = 200
            /\ DOMAIN est[t] = Hazards
            /\ \A h \in Hazards : {"annual_loss", "confidence"} \subseteq DOMAIN est[t][h]
            /\ DOMAIN response[t].body.risk_breakdown = Hazards
            /\ \A h \in Hazards : response[t].body.risk_breakdown[h] = est[t][h]
            /\ {"expected_annual_loss", "present_value_30yr"} \subseteq DOMAIN response[t].body

\* an assessment returned although the hurricane read and an index read
\* raised and another index was not loaded
C2_Witness ==
    \E t \in Threads :
        /\ Assessed(t) /\ response[t].status = 200
        /\ est[t]["hurricane"].confidence = "Error"
        /\ est[t]["heat_stress"].confidence = "Error"
        /\ est[t]["drought"].confidence = "No Data"
        /\ est[t]["extreme_precipitation"].annual_loss > 0

\* the gridded index an estimator computes its loss from
PrimaryIndex == [heat_stress |-> "txx", drought |-> "cdd", extreme_precipitation |-> "rx5day"]

Degraded(entry) == entry.annual_loss = 0 /\ entry.confidence \in {"No Data", "Error"}

\* the disk with the file of index i, or the hurricane archive, made available
WithIndex(d, i) == [d EXCEPT !.hadex3[i] = FileIn(i, "ok")]

WithArchive(d) == [d EXCEPT !.hurricane = [status |-> "ok", rows |-> SampleRows]]

\* the estimate of hazard g for request r on an engine constructed over disk d
EstimateOver(d, g, r) == Estimator(g, BuiltEngine(d), d.hurricane, r.body)

\* C3: when the data source of one hazard is missing or unreadable (its
\* gridded index not loaded, the hurricane archive absent or failing to
\* read), that hazard's estimate is annual_loss 0 with confidence No Data or
\* Error, and the other four estimates of the assessment are what they are
\* with the source available.
C3_MissingSourceDegradesOnlyItsHazard ==
    \A t \in Threads :
        Assessed(t) =>
            /\ \A h \in DOMAIN PrimaryIndex :
                   PrimaryIndex[h] \notin DOMAIN engines[proc[t]].hadex3_data =>
                       /\ Degraded(est[t][h])
                       /\ \A g \in Hazards \ {h} :
                              est[t][g] = EstimateOver(WithIndex(disk, PrimaryIndex[h]), g, req[t])
            /\ disk.hurricane.status # "ok" =>
                   /\ Degraded(est[t]["hurricane"])
                   /\ \A g \in Hazards \ {"hurricane"} :
                          est[t][g] = EstimateOver(WithArchive(disk), g, req[t])

\* txx is the only source not loaded: heat is No Data, and the hurricane,
\* drought and precipitation estimates carry their losses
C3_Witness ==
    \E t \in Threads :
        /\ Assessed(t)
        /\ Indices \ DOMAIN engines[proc[t]].hadex3_data = {"txx"}
        /\ est[t]["heat_stress"] = NoData
        /\ est[t]["hurricane"].annual_loss > 0
        /\ est[t]["drought"].annual_loss > 0
        /\ est[t]["extreme_precipitation"].annual_loss > 0

\* the positions of a handler after its get_processor() call
Querying == {"risk", "hurricane", "rows", "flood", "heat_stress", "drought",
             "extreme_precipitation", "aggregate"}

OutOfRange(lat) == lat < -9000 \/ lat > 9000

\* C4: a request whose latitude is outside [-90, 90] is rejected by input
\* validation before any estimator runs, on /assess and on /assess/<risk_type>.
C4_OutOfRangeLatitudeRejected ==
    \A t \in Threads :
        req[t].endpoint \in {"assess", "specific"} /\ req[t].body.has_coords
        /\ OutOfRange(req[t].body.latitude) =>
            /\ DOMAIN est[t] = {}
            /\ pc[t] = "done" => response[t].status = 400

\* C5: under any interleaving of requests, every value get_processor returns
\* is an engine whose constructor has finished, and no handler queries an
\* engine still loading.
C5_ReturnedEngineIsConstructed ==
    /\ processor # NoEngine => engines[processor] = BuiltEngine(disk)
    /\ \A t \in Threads :
           /\ proc[t] # NoEngine => engines[proc[t]] = BuiltEngine(disk)
           /\ pc[t] \in Querying => proc[t] # NoEngine

\* a handler queries the engine it was handed while another thread, which
\* also found the global None, is still loading its own
C5_Witness ==
    \E t, u \in Threads :
        /\ t # u
        /\ pc[t] \in Querying /\ proc[t] # NoEngine
        /\ pc[u] \in {"ctor_hadex3", "ctor_flood", "ctor_hurricane"}
        /\ engines[u].stage \in {"new", "hadex3", "flood"}

\* C6: under any interleaving of requests that call get_processor the engine
\* is constructed at most once, and every request uses that one instance.
C6_EngineConstructedOnce ==
    /\ Cardinality({t \in Threads : engines[t].stage # "none"}) <= 1
    /\ \A t, u \in Threads : proc[t] # NoEngine /\ proc[u] # NoEngine => proc[t] = proc[u]

\* what calculate_comprehensive_risk returns for request r on an engine
\* freshly constructed over disk d
FreshResult(d, r) ==
    calculate_comprehensive_risk(BuiltEngine(d), d.hurricane, r.body.latitude, r.body.longitude,
                                 r.body.asset_value, r.body.building_type)

\* C7: no assessment modifies the engine's loaded state, the per-storm damage
\* map of a hurricane assessment is not shared with another, and whatever
\* the interleaving an assessment returns what it returns on a freshly
\* constructed engine.
C7_AssessmentsLeaveEngineUnchanged ==
    /\ \A t \in Threads : proc[t] # NoEngine => engines[proc[t]] = BuiltEngine(disk)
    /\ \A t \in Threads : Assessed(t) => response[t] = Respond(200, FreshResult(disk, req[t]))

\* an assessment with a hurricane loss has returned while another, for
\* another location, is inside its row loop with storms recorded
C7_Witness ==
    \E t, u \in Threads :
        /\ Assessed(t) /\ response[t].body.risk_breakdown.hurricane.annual_loss > 0
        /\ pc[u] = "rows" /\ row[u] > 0 /\ storm_max_damage[u] # <<>>
        /\ req[u].body.latitude # req[t].body.latitude

\* the estimator a single-hazard request runs and the index it reads
HazardOf(t) == risk_methods[req[t].risk_type]

IndexOf(t) == PrimaryIndex[HazardOf(t)]

\* a single-hazard request for a gridded hazard that ran to its response
Resolved(t) ==
    /\ pc[t] = "done" /\ req[t].endpoint = "specific"
    /\ req[t].risk_type \in {"heat", "drought", "precipitation"}
    /\ IndexOf(t) \in DOMAIN engines[proc[t]].hadex3_data

\* a missing entry: NaN, or the missing-data flag -99.9 (below -90)
Missing(x) == IsNaN(x) \/ x < -900

MissingCount(series) == Cardinality({i \in 1..Len(series) : Missing(series[i])})

\* the nearest grid cell of request t in the dataset of its index
NearestCell(t) ==
    find_nearest_grid_point(engines[proc[t]].hadex3_data[IndexOf(t)],
                            req[t].body.latitude, req[t].body.longitude)

\* the cells adjacent to cell c, of its 8 neighbours those on the grid
Adjacent(c) == {d \in Cells : d # c /\ Abs(d[1] - c[1]) <= 1 /\ Abs(d[2] - c[2]) <= 1}

\* the adjacent cells with at least 50% valid values
GoodNeighbours(t) ==
    LET var == engines[proc[t]].hadex3_data[IndexOf(t)].var
    IN  {d \in Adjacent(NearestCell(t)) : 2 * MissingCount(var[d]) <= Len(var[d])}

\* C8: when the nearest cell's series is more than 50% missing and at least
\* 3 adjacent cells have at least 50% valid values, the resolver returns the
\* interpolated series and the estimator does not use the regional baseline.
C8_InterpolationBeforeBaseline ==
    \A t \in Threads :
        LET dataset == engines[proc[t]].hadex3_data[IndexOf(t)]
            centre  == NearestCell(t)
        IN  /\ Resolved(t)
            /\ 2 * MissingCount(dataset.var[centre]) > Len(dataset.var[centre])
            /\ Cardinality(GoodNeighbours(t)) >= 3
            => /\ ts[t] = interpolate_from_neighbors(dataset, req[t].body.latitude,
                                                     req[t].body.longitude, centre[1], centre[2])
               /\ ts[t].kind = "series"
               /\ est[t][HazardOf(t)].confidence # "Regional Baseline"

\* what the estimator of request t returns when it takes the regional
\* baseline: its result over a grid that holds only the missing-data flag
BaselineEstimate(t) ==
    LET flagged == [i \in Indices |-> Dataset([c \in Cells |-> SSentinel])]
    IN  Estimator(HazardOf(t), [engines[proc[t]] EXCEPT !.hadex3_data = flagged],
                  disk.hurricane, req[t].body)

\* C9: when the index is loaded and tier 1 and tier 2 both fail, the heat,
\* drought and precipitation estimators compute their loss from the regional
\* baseline (or the global default) and report confidence Regional Baseline.
C9_BaselineWhenTiersFail ==
    \A t \in Threads :
        Resolved(t) /\ ts[t] = [kind |-> "None"] =>
            /\ est[t][HazardOf(t)].confidence = "Regional Baseline"
            /\ est[t][HazardOf(t)] = BaselineEstimate(t)

\* a hurricane request that ran to its response over a track of one storm
\* whose observations all have numeric fields and lie within the cutoff
\* radius of the query point
OneStormWithinCutoff(t) ==
    LET rows == disk.hurricane.rows
    IN  /\ pc[t] = "done" /\ req[t].risk_type = "hurricane"
        /\ disk.hurricane.status = "ok" /\ Len(rows) >= 1
        /\ \A i \in 1..Len(rows) :
               /\ rows[i].SID = rows[1].SID
               /\ ~IsNaN(rows[i].LAT) /\ ~IsNaN(rows[i].LON) /\ ~IsNaN(rows[i].USA_WIND)
               /\ haversine(req[t].body.latitude, req[t].body.longitude,
                            rows[i].LAT, rows[i].LON) <= 200

\* the wind of observation r as it arrives at the query point of request t
WindAt(t, r) ==
    effective_wind_mph(r.USA_WIND, haversine(req[t].body.latitude, req[t].body.longitude,
                                             r.LAT, r.LON))

\* the observation's wind is at least 74 mph after decay
Damaging(t, r) == WindAt(t, r) >= 7400

\* the damage ratios of the track's observations
ObsDamage(t) ==
    { IF Damaging(t, disk.hurricane.rows[i])
      THEN wind_to_damage_hazus(WindAt(t, disk.hurricane.rows[i]), req[t].body.building_type)
      ELSE 0 : i \in 1..Len(disk.hurricane.rows) }

SetMax(S) == CHOOSE x \in S : \A y \in S : y <= x

\* C10 as stated: a track of N >= 1 observations of one storm_id, all within
\* the cutoff radius, counts exactly 1 distinct storm, with the maximum of
\* the observations' damage ratios recorded for it.
C10_OneStormCounted ==
    \A t \in Threads :
        OneStormWithinCutoff(t) =>
            /\ DOMAIN storm_max_damage[t] = {disk.hurricane.rows[1].SID}
            /\ storm_max_damage[t][disk.hurricane.rows[1].SID] = SetMax(ObsDamage(t))
            /\ est[t]["hurricane"].details.a = 1

\* C10, with the damage threshold: such a track counts exactly 1 distinct
\* storm when at least one observation's wind is at least 74 mph after
\* decay, the damage ratio recorded being the maximum over the
\* observations (not their sum, not the last one); otherwise it counts none
\* and the estimate is the zero-loss Low Risk one.
C10_OneDamagingStormCounted ==
    \A t \in Threads :
        OneStormWithinCutoff(t) =>
            IF \E i \in 1..Len(disk.hurricane.rows) : Damaging(t, disk.hurricane.rows[i])
            THEN /\ DOMAIN storm_max_damage[t] = {disk.hurricane.rows[1].SID}
                 /\ storm_max_damage[t][disk.hurricane.rows[1].SID] = SetMax(ObsDamage(t))
                 /\ est[t]["hurricane"].details.a = 1
                 /\ est[t]["hurricane"].confidence = "Medium"
                 /\ est[t]["hurricane"].annual_loss =
                        Money((SetMax(ObsDamage(t)) * 22) \div 5000, req[t].body.asset_value)
            ELSE /\ storm_max_damage[t] = <<>>
                 /\ est[t]["hurricane"].confidence = "Low Risk"
                 /\ est[t]["hurricane"].annual_loss = 0

\* a track of MaxObs observations of one storm: two damaging ones with
\* different damage ratios, the larger first, and one below the threshold
C10_Witness ==
    \E t \in Threads :
        LET rows == disk.hurricane.rows
        IN  /\ OneStormWithinCutoff(t) /\ Len(rows) = MaxObs
            /\ Damaging(t, rows[1]) /\ Damaging(t, rows[2]) /\ ~Damaging(t, rows[Len(rows)])
            /\ WindAt(t, rows[2]) < WindAt(t, rows[1])
            /\ Cardinality(ObsDamage(t)) = 3
            /\ est[t]["hurricane"].details.a = 1
            /\ est[t]["hurricane"].annual_loss > 0

\* a single-hazard hurricane request that ran to its response
HurricaneDone(t) == pc[t] = "done" /\ req[t].risk_type = "hurricane"

\* the storm ids with an observation that has numeric fields, lies within
\* 200 km of the query point of request t and arrives with at least 74 mph
DamagingStorms(t) ==
    LET rows == disk.hurricane.rows
        Hits(r) == /\ ~IsNaN(r.LAT) /\ ~IsNaN(r.LON) /\ ~IsNaN(r.USA_WIND)
                   /\ haversine(req[t].body.latitude, req[t].body.longitude, r.LAT, r.LON) <= 200
                   /\ WindAt(t, r) >= 7400
    IN  {rows[i].SID : i \in {j \in 1..Len(rows) : Hits(rows[j])}}

\* C11: the hurricane estimate's confidence is High iff at least 5 distinct
\* damaging storms were found, Medium iff 1 to 4, Low Risk with zero loss iff
\* none; when reading the track data fails it is Error with annual_loss 0,
\* and the failure does not reach the caller as an exception.
C11_HurricaneConfidence ==
    \A t \in Threads :
        HurricaneDone(t) =>
            LET e == est[t]["hurricane"]
                n == Cardinality(DamagingStorms(t))
            IN  /\ response[t] = Respond(200, e)
                /\ disk.hurricane.status = "ok" =>
                       /\ e.confidence = "High" <=> n >= 5
                       /\ e.confidence = "Medium" <=> (1 <= n /\ n <= 4)
                       /\ e.confidence = "Low Risk" <=> n = 0
                       /\ n = 0 => e.annual_loss = 0
                       /\ n >= 1 => e.details.a = n
                /\ disk.hurricane.status = "unreadable" =>
                       e.confidence = "Error" /\ e.annual_loss = 0

\* exactly five damaging storms among seven observations give High
C11_Witness ==
    \E t \in Threads :
        /\ HurricaneDone(t)
        /\ Cardinality(DamagingStorms(t)) = 5
        /\ Len(disk.hurricane.rows) = 7
        /\ est[t]["hurricane"].confidence = "High"
        /\ est[t]["hurricane"].annual_loss > 0

(* wind_to_damage_hazus *)

WindReturned == call.fn = "wind_to_damage_hazus" /\ result.kind = "value"

\* C12: wind_to_damage_hazus is non-decreasing in wind speed for every
\* building type: no slower wind, on either side of any breakpoint (74, 95,
\* 110, 130, 157 mph), gets a larger damage ratio than the wind of the call.
C12_WindDamageNonDecreasing ==
    WindReturned =>
        \A w \in Winds :
            w <= call.wind_mph =>
                wind_to_damage_hazus(w, call.building_type) <= result.value

\* the cap of a building type's curve, in ppm
DamageCap(building_type) == IF building_type = "concrete" THEN 700000 ELSE 1000000

\* C13: wind_to_damage_hazus returns exactly 0 for a wind below 74 mph and
\* never more than the building type's cap (1.0 for wood_frame and the types
\* treated as wood_frame, 0.70 for concrete), however large the wind.
C13_WindDamageZeroBelowThresholdAndCapped ==
    WindReturned =>
        /\ call.wind_mph < 7400 => result.value = 0
        /\ result.value >= 0
        /\ result.value <= DamageCap(call.building_type)

\* a 10,000 mph wind on a concrete building returns the cap itself, and a
\* wind a hundredth below 74 mph returns 0
C13_Witness ==
    /\ WindReturned
    /\ call.building_type = "concrete"
    /\ call.wind_mph = 1000000
    /\ result.value = 700000
    /\ wind_to_damage_hazus(7399, "steel") = 0
    /\ wind_to_damage_hazus(1000000, "steel") = 1000000

\* the steepest segment of a building type's curve, in ppm per hundredth mph
SteepestSlope(building_type) == IF building_type = "concrete" THEN 75 ELSE 111

\* C14: wind_to_damage_hazus is continuous: at every breakpoint the value the
\* segment below approaches equals the value the segment above starts at, so
\* the step from a hundredth of a mph below a breakpoint to the breakpoint is
\* no more than the steepest segment rises over that hundredth.
C14_WindDamageContinuous ==
    (WindReturned /\ call.wind_mph \in WindBreakpoints) =>
        Abs(result.value - wind_to_damage_hazus(call.wind_mph - 1, call.building_type))
            <= SteepestSlope(call.building_type)

(* flood_depth_to_damage_hazus *)

FloodCurveReturned == call.fn = "flood_depth_to_damage_hazus" /\ result.kind = "value"

\* the control points a building type is read against
ControlPoints(building_type) ==
    IF building_type \in {"commercial", "industrial"} THEN curves[building_type]
    ELSE curves["residential"]

\* the reference interpolation: 0 below the first control point, the last
\* control point's ratio from the last control point on, and between two
\* adjacent control points the straight line through them
ReferenceInterpolation(depth_m, building_type) ==
    LET cp == ControlPoints(building_type)
        n  == Len(cp)
    IN  IF depth_m < cp[1][1] THEN 0
        ELSE IF depth_m >= cp[n][1] THEN cp[n][2]
        ELSE LET i == CHOOSE k \in 1..(n - 1) : cp[k][1] <= depth_m /\ depth_m < cp[k + 1][1]
             IN  cp[i][2] + ((cp[i + 1][2] - cp[i][2]) * (depth_m - cp[i][1]))
                                \div (cp[i + 1][1] - cp[i][1])

\* C15: for residential, commercial, industrial and any other building type
\* (read against the residential curve), flood_depth_to_damage_hazus equals
\* the reference piecewise-linear interpolation of the control points: 0
\* below the first control point and at depth 0, linear between control
\* points, the last control point's ratio beyond it; and no shallower depth
\* gets a larger damage ratio.
C15_FloodCurveIsReferenceInterpolation ==
    FloodCurveReturned =>
        /\ result.value = ReferenceInterpolation(call.depth_m, call.building_type)
        /\ call.depth_m <= 0 => result.value = 0
        /\ \A d \in Depths :
               d <= call.depth_m =>
                   flood_depth_to_damage_hazus(d, call.building_type) <= result.value

\* a depth beyond the last control point on the commercial curve returns
\* that point's 0.90, and an unknown type at 0.65 m is read half-way between
\* the residential points (0.3, 0.10) and (1.0, 0.20)
C15_Witness ==
    /\ FloodCurveReturned
    /\ call.building_type = "commercial"
    /\ call.depth_m = 10000
    /\ result.value = 900000
    /\ flood_depth_to_damage_hazus(65, "warehouse") = 150000
    /\ flood_depth_to_damage_hazus(-1, "industrial") = 0

(* query_flood_depth *)

FloodLookupReturned == call.fn = "query_flood_depth" /\ result.kind = "value"

\* C16: for any flood table, two coordinates that round to the same 0.5
\* degree cell get the identical depth from query_flood_depth, whether or
\* not the cell's key is in the table.
C16_SameCellSameDepth ==
    FloodLookupReturned =>
        \A la \in LookupLats, lo \in LookupLons :
            FloodKey(la, lo) = FloodKey(call.lat, call.lon) =>
                query_flood_depth(call.flood_lookup, la, lo) = result.value

(* present value *)

PresentValueReturned == call.fn = "present_value" /\ result.kind = "value"

\* (1.02 / 1.10) ^ n = (51 / 55) ^ n, scaled by 10^6
RECURSIVE GrowthOverDiscount(_)
GrowthOverDiscount(n) == IF n = 0 THEN 1000000 ELSE (GrowthOverDiscount(n - 1) * 51) \div 55

\* the closed form of the growing annuity: with r = 1.02 / 1.10,
\* total * r * (1 - r^n) / (1 - r), and r / (1 - r) = 51 / 4
ClosedFormAnnuity(total, n) ==
    (((total * 51) \div 4) * ((1000000 - GrowthOverDiscount(n)) \div 100)) \div 10000

\* what the fixed-point loop and the fixed-point closed form may differ by:
\* one unit for each year's rounding and 0.1% of the total for each year
AnnuityTolerance(total, n) == n + (total * n) \div 1000

PresentValueIsAnnuitySum ==
    Abs(result.value - ClosedFormAnnuity(call.total_annual_loss, call.time_horizon))
        <= AnnuityTolerance(call.total_annual_loss, call.time_horizon)

AtSpecParameters == call.total_annual_loss = 1000 /\ call.time_horizon = 30

\* C17 (as stated): the present value is the sum over years 1..horizon of
\* total * 1.02^year / 1.10^year, equal to the closed-form growing-annuity
\* sum, and for total 1000 over 30 years it is about 9,506.
C17_PresentValueAbout9506 ==
    PresentValueReturned =>
        /\ PresentValueIsAnnuitySum
        /\ AtSpecParameters => Abs(result.value - 9506) <= AnnuityTolerance(1000, 30)

\* C17 (amended): the present value is the sum over years 1..horizon of
\* total * 1.02^year / 1.10^year, equal to the closed-form growing-annuity
\* sum, and for total 1000 over 30 years it is about 11,426.
C17_PresentValueIsClosedForm ==
    PresentValueReturned =>
        /\ PresentValueIsAnnuitySum
        /\ AtSpecParameters => Abs(result.value - 11426) <= AnnuityTolerance(1000, 30)

\* the loop has run for total 1000 over 30 years and returned more than 11,000
C17_Witness ==
    /\ PresentValueReturned
    /\ AtSpecParameters
    /\ result.value > 11000

(* HazardEstimate *)

Confidences ==
    {"High", "Medium", "Low Risk", "Regional Baseline", "Insufficient Data", "No Data", "Error"}

\* C18: every estimate an estimator returned, on the no-data and error
\* paths too, carries the four fields annual_loss, annual_loss_pct,
\* confidence and details, and its confidence is one of High, Medium, Low
\* Risk, Regional Baseline, Insufficient Data, No Data, Error.
C18_EstimatesCarryFourFields ==
    \A t \in Threads :
        \A h \in DOMAIN est[t] :
            est[t][h] # Raised =>
                /\ {"annual_loss", "annual_loss_pct", "confidence", "details"}
                       \subseteq DOMAIN est[t][h]
                /\ est[t][h].confidence \in Confidences

(* extract_hadex3_timeseries: tier 1 *)

\* C19: extract_hadex3_timeseries returns the nearest cell's series if and
\* only if at least 50% of its entries are valid, an entry being invalid when
\* it is masked / NaN or below the missing-data flag (about -90); a nearest
\* cell with more than half of its entries missing is not accepted and the
\* resolver goes on to the interpolation of tier 2.
C19_TierOneAcceptsValidSeriesOnly ==
    \A t \in Threads :
        Resolved(t) =>
            LET dataset == engines[proc[t]].hadex3_data[IndexOf(t)]
                centre  == NearestCell(t)
                series  == dataset.var[centre]
            IN  IF 2 * MissingCount(series) <= Len(series)
                THEN ts[t] = [kind |-> "series", data |-> series]
                ELSE ts[t] = interpolate_from_neighbors(dataset, req[t].body.latitude,
                                                        req[t].body.longitude,
                                                        centre[1], centre[2])

(* confidence of the heat, drought and precipitation estimates *)

\* the upper end of the range each estimator accepts samples in
Ceiling == [heat_stress |-> 600, drought |-> 4000, extreme_precipitation |-> 10000]

\* the resolver gave request t a series with at least one sample in range
HasSamples(t) ==
    /\ ts[t].kind = "series"
    /\ \E i \in 1..Len(ts[t].data) :
           /\ ~IsNaN(ts[t].data[i])
           /\ ts[t].data[i] > -900
           /\ ts[t].data[i] < Ceiling[HazardOf(t)]

\* the regional baseline (or global default) of request t's index exists
HasBaseline(t) ==
    get_regional_baseline(req[t].body.latitude, req[t].body.longitude, IndexOf(t)).kind # "None"

\* C20: the confidence of a heat, drought or precipitation estimate names
\* the source of its value: Medium exactly when the mean was taken over grid
\* or interpolated samples, Regional Baseline exactly when there were none
\* and the baseline scalar was used, and Insufficient Data or No Data with
\* annual_loss 0 exactly when neither samples nor a baseline gave a value.
C20_ConfidenceNamesSource ==
    \A t \in Threads :
        Resolved(t) =>
            LET e == est[t][HazardOf(t)]
            IN  /\ e.confidence = "Medium" <=> HasSamples(t)
                /\ e.confidence = "Regional Baseline" <=> (~HasSamples(t) /\ HasBaseline(t))
                /\ (e.confidence \in {"Insufficient Data", "No Data"} /\ e.annual_loss = 0)
                       <=> (~HasSamples(t) /\ ~HasBaseline(t))

(* get_regional_baseline *)

BaselineReturned == call.fn = "get_regional_baseline" /\ result.kind = "value"

\* the regions, by position in the declaration, whose closed box holds the
\* coordinate of the call
RegionsHolding ==
    {k \in 1..Len(regional_baselines) :
        LET r == regional_baselines[k]
        IN  /\ r.lat_range[1] <= call.lat /\ call.lat <= r.lat_range[2]
            /\ r.lon_range[1] <= call.lon /\ call.lon <= r.lon_range[2]}

\* the proxy index whose value is looked up for an index name
ProxyIndex ==
    [cdd |-> "cdd", rx5day |-> "rx5day", rx1day |-> "rx5day",
     txx |-> "txx", tr |-> "txx", su |-> "txx", wsdi |-> "txx"]

\* the global defaults: cdd 80, txx 35, rx5day 100
GlobalDefault == [cdd |-> 800, txx |-> 350, rx5day |-> 1000]

\* C21: get_regional_baseline is first-match-wins over the declaration
\* order: for a coordinate in the closed boxes of several regions it returns
\* the value of the region declared first, and for a coordinate in no region
\* the global default of the proxy index (cdd 80, txx 35, rx5day 100).
C21_FirstMatchingRegionWins ==
    (BaselineReturned /\ call.index_name \in DOMAIN ProxyIndex) =>
        /\ result.value.kind = "value"
        /\ \A k \in RegionsHolding :
               (\A j \in RegionsHolding : k <= j) =>
                   result.value.v = regional_baselines[k][ProxyIndex[call.index_name]]
        /\ RegionsHolding = {} => result.value.v = GlobalDefault[ProxyIndex[call.index_name]]

\* (37.5, -90) lies in north_america_midwest and north_america_southeast,
\* whose txx differ: the call for tr returned the midwest's 38; and a call
\* at a point of no region returns the default
C21_Witness ==
    /\ BaselineReturned
    /\ call.lat = 3750 /\ call.lon = -9000 /\ call.index_name = "tr"
    /\ Cardinality(RegionsHolding) = 2
    /\ result.value.v = 380
    /\ get_regional_baseline(6000, 1000, "rx1day").v = 1000

(* annual frequency *)

\* the number of years the record spans: from the year of its earliest
\* observation to the year of its latest
YearsSpanned(rows) ==
    LET years == {rows[i].ISO_TIME : i \in 1..Len(rows)}
    IN  SetMax(years) - (CHOOSE y \in years : \A z \in years : y <= z) + 1

\* C22: the annual frequency of the hurricane estimate is the number of
\* distinct damaging storms divided by the number of years the track record
\* that was read spans, so the loss (frequency x average damage x asset value
\* x 0.22) of the same storms falls in proportion as the record gets longer.
C22_FrequencyOverRecordSpan ==
    \A t \in Threads :
        (HurricaneDone(t) /\ disk.hurricane.status = "ok" /\ DamagingStorms(t) # {}) =>
            LET n     == Cardinality(DamagingStorms(t))
                years == YearsSpanned(disk.hurricane.rows)
                avg   == SumValues(storm_max_damage[t]) \div n
            IN  /\ est[t]["hurricane"].details.b = years
                /\ est[t]["hurricane"].annual_loss =
                       Money((n * avg * 22) \div (years * 100), req[t].body.asset_value)

(* query_flood_depth: the fallback *)

\* the quantized key of the call is not a key of the table
KeyAbsent ==
    \A n \in 1..Len(call.flood_lookup) :
        call.flood_lookup[n].key # FloodKey(call.lat, call.lon)

\* the square of the Euclidean distance in degrees (in hundredths) from the
\* query coordinate to the n-th entry of the table
DegreesSquared(n) ==
    LET k == call.flood_lookup[n].key
    IN  (call.lat - k[1].v) * (call.lat - k[1].v) + (call.lon - k[2].v) * (call.lon - k[2].v)

\* the entries whose key reads as a coordinate less than 2 degrees away
WithinRadius ==
    {n \in 1..Len(call.flood_lookup) :
        /\ call.flood_lookup[n].key[1].form # "bad"
        /\ call.flood_lookup[n].key[2].form # "bad"
        /\ DegreesSquared(n) < 200 * 200}

\* C23: when the quantized key of the query is not in the table,
\* query_flood_depth returns the depth of an entry at minimum Euclidean
\* distance in degrees from the query coordinate among the entries within the
\* 2 degree radius, and 0.0 when there is none; an entry outside the radius
\* never determines the result.
C23_NearestEntryWithinRadius ==
    (FloodLookupReturned /\ KeyAbsent) =>
        IF WithinRadius = {}
        THEN result.value = [v |-> 0, type |-> "number"]
        ELSE \E n \in WithinRadius :
                 /\ \A m \in WithinRadius : DegreesSquared(n) <= DegreesSquared(m)
                 /\ result.value = [v |-> call.flood_lookup[n].depth,
                                    type |-> call.flood_lookup[n].depth_type]

\* the only entry, 3.0 m deep, is 2.25 degrees from the query: the call
\* returned 0.0; a query 1.75 degrees from it gets the 3.0 m
C23_Witness ==
    /\ FloodLookupReturned /\ KeyAbsent
    /\ call.flood_lookup = FarTable
    /\ call.lat = 2575 /\ call.lon = -8000
    /\ WithinRadius = {}
    /\ result.value = [v |-> 0, type |-> "number"]
    /\ query_flood_depth(FarTable, 2625, -8000) = [v |-> 300, type |-> "number"]

====
